---------------------------- MODULE Spec2Model ----------------------------
(***************************************************************************)
(* Model of the Observability MCP server (src/observability_mcp/server.py). *)
(*                                                                         *)
(* The server is a set of async tool handlers that share one keyed store   *)
(* (ctx.storage).  Every `await` of a handler is a point where the event   *)
(* loop may run another handler, so a handler is modelled as the sequence  *)
(* of its atomic segments between awaits; invocation slots (Procs) run     *)
(* those segments interleaved.                                             *)
(*                                                                         *)
(* Time is a discrete wall clock (`clock`): time.time() and datetime.now() *)
(* both read it, and it never runs backward inside one process.            *)
(*                                                                         *)
(* The store has value semantics: get returns the value last set for the   *)
(* key (or the default), set replaces the value of exactly one key.        *)
(***************************************************************************)
EXTENDS Integers, Sequences, FiniteSets, TLC

VARIABLES
    clock,      \* the wall clock read by time.time() / datetime.now()
    storage,    \* ctx.storage: function from the keys set so far to values
    pc,         \* per invocation slot: the await the handler is suspended at
    frame,      \* per invocation slot: the handler's arguments and locals
    ninv,       \* number of invocations started so far (ghost, bounded)
    completed,  \* per key: appending invocations that have returned (ghost)
    alert_state \* per (service, metric): NORMAL or ALERTING, as the latest
                \* sample the last alert_on_anomalies read left it (ghost)

vars == <<clock, storage, pc, frame, ninv, completed, alert_state>>

(***************************************************************************)
(* Bounds of the model.                                                    *)
(***************************************************************************)
\* Concurrent invocation slots.
Procs == {"p1", "p2"}

\* Invocations started in one behaviour: overlapping on the store, one at a
\* time, and of monitor_server_health over all its outcomes.
MaxInv == 3
MaxSeqInv == 3
MaxHealthInv == 2

\* Last instant of the wall clock: where the store is exercised, and where
\* the probe's timing is.
StoreHorizon == 1
ProbeHorizon == 2

\* Retention caps.  The code keeps the last 100 health results, 1000
\* performance points, 500 traces and 100 system snapshots; the model keeps
\* the same slices with the counts scaled down so that overflow is reached.
HealthCap == 2
PerformanceCap == 2
TraceCap == 2
SystemCap == 2

\* Invocations in the runs of the alert rules, and of all tools together.
MaxAlertInv == 3
MaxRuleInv == 2
MaxToolsInv == 2

\* Invocations and clock ticks in the runs of the reports.
MaxReportInv == 3
ReportHorizon == 2

\* The day of the hour-of-day computation, scaled from 24 hours.
HoursPerDay == 4

\* Invocations and clock ticks in the runs of the interaction analysis, and
\* the longest trace history and trace list drawn.
MaxInteractInv == 3
InteractHorizon == 2
MaxAnalysisInv == 1
MaxStoredTraces == 3
MaxTraces == 6

\* Invocations in the runs of the export, and its limits history_keys[:10]
\* and history[-100:], scaled.
MaxExportInv == 3
MaxFailInv == 2
ExportKeyLimit == 2
ExportEntries == 1

\* The lengths of the peak-hour and slowest-operation lists ([:3], [:5]).
PeakHours == 3
SlowestOperations == 5

(***************************************************************************)
(* Values.                                                                 *)
(***************************************************************************)
\* Optional[T]: None is the empty sequence, a present value x is <<x>>.
None == <<>>
Some(x) == <<x>>

Max(a, b) == IF a > b THEN a ELSE b
Min(a, b) == IF a < b THEN a ELSE b
Range(s) == {s[i] : i \in 1..Len(s)}
Last(s) == s[Len(s)]

\* Python's  lst[-n:]  for n >= 1: the last n elements, all if fewer.
LastN(lst, n) == SubSeq(lst, Max(1, Len(lst) - n + 1), Len(lst))


(***************************************************************************)
(* The keyed store.  A key f"{prefix}:{name}" is the pair <<prefix, name>>; *)
(* a key without a name part has the empty name.                           *)
(***************************************************************************)
Key(prefix, name) == <<prefix, name>>

health_history_key(service_url) == Key("health_history", service_url)
performance_history_key(service_name) == Key("performance_history", service_name)
trace_history_key(service_name) == Key("trace_history", service_name)
system_status_history_key == Key("system_status_history", "")
alert_configs_key == Key("alert_configs", "")

\* ctx.storage.get(key, default)
StorageGet(s, key, default) == IF key \in DOMAIN s THEN s[key] ELSE default

\* ctx.storage.set(key, value): the store with that one key replaced.
StorageSet(s, key, value) ==
    [k \in DOMAIN s \cup {key} |-> IF k = key THEN value ELSE s[k]]

\* ctx.storage.keys()
StorageKeys(s) == DOMAIN s

\* AlertConfig(...).dict(); enabled defaults to True.
AlertConfig(metric_name, threshold, operator, severity) ==
    [metric_name |-> metric_name, threshold |-> threshold,
     operator |-> operator, severity |-> severity, enabled |-> TRUE]

\* A rule list with two rules on cpu_percent.
default_alertsDuplicate ==
    << AlertConfig("cpu_percent", 9000, "gt", "warning"),
       AlertConfig("cpu_percent", 8000, "gt", "error"),
       AlertConfig("error_rate", 5, "gt", "error") >>

\* The default rules of server_lifespan.  Thresholds are kept in
\* hundredths so that 0.05 is an integer: 9000, 100000 and 5.
default_alerts ==
    << AlertConfig("cpu_percent", 9000, "gt", "warning"),
       AlertConfig("memory_mb", 100000, "gt", "error"),
       AlertConfig("error_rate", 5, "gt", "error") >>

\* A startup that installs no alert rules.
server_lifespanNoRules ==
    StorageSet(
        StorageSet(<<>>, Key("server_start_time", ""), 0),
        Key("metrics_retention_days", ""), 30)

\* The store as server_lifespan leaves it at startup (clock 0).
server_lifespan ==
    StorageSet(
        StorageSet(
            StorageSet(<<>>, Key("server_start_time", ""), 0),
            Key("metrics_retention_days", ""), 30),
        alert_configs_key, default_alerts)

(***************************************************************************)
(* Invocation frames.                                                      *)
(***************************************************************************)
NoSample == [kind |-> "none"]
NoReturn == [kind |-> "none"]

IdleFrame ==
    [tool |-> "none",
     service |-> "",               \* service_url / service_name
     timeout_seconds |-> 0,
     expected_status_codes |-> {},
     start_time |-> 0,
     exception |-> None,           \* str(e) of the exception caught, if any
     timed_out |-> FALSE,          \* the exception was the timeout (ghost)
     arg_expected |-> None,        \* expected_status_codes as passed (ghost)
     response |-> NoSample,        \* what the handler holds of the response
     sample |-> NoSample,          \* the sample the handler built
     history |-> <<>>,             \* the list storage.get returned
     cutoff_date |-> 0,            \* report: datetime.now() - timedelta(days)
     perf_keys |-> <<>>,           \* report: keys still to be scanned
     recent_history |-> None,      \* report: the filtered list, once built
     all_history |-> <<>>,         \* report: service -> in-window samples
     days |-> 0,                   \* analysis: the window asked for
     trace_keys |-> <<>>,          \* analysis: keys still to be scanned
     all_traces |-> <<>>,          \* analysis: in-window traces collected so far
     service_stats |-> <<>>,       \* analysis: service -> its statistics
     history_keys |-> <<>>,        \* export: keys still to be read
     export_data |-> <<>>,         \* export: the dict being built
     format |-> "",                \* export: the format asked for
     include_history |-> FALSE,    \* export: include_history
     alert_configs |-> <<>>,       \* alerts: the parsed rule set
     services_to_check |-> <<>>,   \* alerts: services still to be checked
     anomalies |-> <<>>,           \* alerts: anomalies collected so far
     active_alerts |-> <<>>,       \* alerts: active alerts collected so far
     checked |-> <<>>,             \* alerts: service -> latest sample read (ghost)
     ret |-> NoReturn,             \* what the handler returned or raised
     inv |-> 0,                    \* number of this invocation (ghost)
     probes |-> 0]                 \* outbound probes issued (ghost)

\* The slot of a handler that has returned or raised: its locals are gone,
\* the caller holds the outcome.
Returned(f, ret) ==
    [IdleFrame EXCEPT
        !.tool = f.tool, !.service = f.service,
        !.timeout_seconds = f.timeout_seconds,
        !.expected_status_codes = f.expected_status_codes,
        !.exception = f.exception, !.timed_out = f.timed_out,
        !.arg_expected = f.arg_expected,
        !.sample = f.sample, !.inv = f.inv, !.probes = f.probes,
        !.ret = ret]

\* The history key an appending handler works on.
history_key(f) ==
    CASE f.tool = "monitor_server_health" -> health_history_key(f.service)
      [] f.tool = "collect_performance_metrics" -> performance_history_key(f.service)
      [] f.tool = "trace_mcp_calls" -> trace_history_key(f.service)
      [] f.tool = "monitor_system_resources" -> system_status_history_key
      [] OTHER -> Key("none", "")

AppendingTools ==
    {"monitor_server_health", "collect_performance_metrics",
     "trace_mcp_calls", "monitor_system_resources"}

\* A slot is free before its first invocation and once its handler has
\* returned or raised (its frame then still shows the outcome).
Free(p) == pc[p] \in {"idle", "done"}

\* No other handler is in flight.
Sequential(p) == \A q \in Procs \ {p} : Free(q)

\* A new invocation takes the first free slot (slots are interchangeable);
\* a caller that issues its calls one at a time waits for the last return.
CanInvoke(p, I) ==
    /\ Free(p)
    /\ ninv < I.max_inv
    /\ p = "p2" => ~Free("p1")
    /\ I.sequential => Sequential(p)

(***************************************************************************)
(* The arguments and environment readings the invocations are tried with.  *)
(***************************************************************************)
ServiceUrls == {"http://a", "http://b"}
ServiceNames == {"system", "api"}

AllInputs ==
    [max_inv |-> MaxHealthInv,
     sequential |-> FALSE,          \* the caller awaits each call before the next
     horizon |-> ProbeHorizon,
     urls |-> ServiceUrls,
     timeouts |-> {1, 2},           \* timeout_seconds, in clock units
     expected |-> {None, Some({200}), Some({200, 404})},  \* expected_status_codes
     codes |-> {200, 404},                    \* response.status
     messages |-> {"Connection failed", ""},  \* str(e); a timeout's is empty
     services |-> ServiceNames,
     cpu |-> {50, 95},                        \* psutil.cpu_percent
     memory |-> {512},                        \* memory.used in MB
     operations |-> {"call_tool"},
     durations |-> {100, 1500},               \* duration_ms
     system_cpu |-> {35, 95},
     report_services |-> ServiceNames \cup {""},
     alert_services |-> ServiceNames \cup {""},    \* service_name, "" for None
     formats |-> {"prometheus", "opentelemetry", "json", "xml"},  \* format
     include_history |-> BOOLEAN,
     days |-> {1, 7}]                         \* the window, in clock units

(***************************************************************************)
(* monitor_server_health                                                   *)
(***************************************************************************)

\* A slip of is_healthy: the accepted set is ignored, only 200 is healthy.
is_healthyOnly200(status_code, expected_status_codes) ==
    status_code = 200

\* response.status in expected_status_codes
is_healthy(status_code, expected_status_codes) ==
    status_code \in expected_status_codes

\* (time.time() - start_time) * 1000
response_time(now, start_time) == (now - start_time) * 1000

\* HealthCheckResult(...).dict() of the try branch.
HealthCheckResult(f) ==
    [service_name |-> f.service,
     status |-> f.response.status,
     response_time_ms |-> f.response.response_time_ms,
     timestamp |-> f.response.timestamp,
     details |-> Some(f.response.status_code),
     error_message |-> None,
     inv |-> f.inv]

\* A slip of HealthCheckFailure: the message of the exception is dropped.
HealthCheckFailureNoMessage(f, now, message) ==
    [service_name |-> f.service,
     status |-> "unhealthy",
     response_time_ms |-> response_time(now, f.start_time),
     timestamp |-> now,
     details |-> None,
     error_message |-> None,
     inv |-> f.inv]

\* HealthCheckResult(...).dict() of the except branch.
HealthCheckFailure(f, now, message) ==
    [service_name |-> f.service,
     status |-> "unhealthy",
     response_time_ms |-> response_time(now, f.start_time),
     timestamp |-> now,
     details |-> None,
     error_message |-> Some(message),
     inv |-> f.inv]

_generate_health_recommendations(result) ==
    (IF result.status # "healthy"
        THEN <<[text |-> "unhealthy - investigate immediately"]>> ELSE <<>>)
    \o (IF result.response_time_ms > 1000
        THEN <<[text |-> "response time is high"]>> ELSE <<>>)
    \o (IF result.error_message # None /\ result.error_message[1] # ""
        THEN <<[text |-> "address the error", error |-> result.error_message[1]]>>
        ELSE <<>>)

\* A slip of HealthRetain: the list is stored untrimmed.
HealthRetainNothing(history) == history

\* history = history[-100:]
HealthRetain(history) == LastN(history, HealthCap)

\* Lines 222-229: default the accepted codes, take the start time, and
\* issue the one session.get of the invocation.
InvokeHealth(p, I) ==
    /\ CanInvoke(p, I)
    /\ \E url \in I.urls, t \in I.timeouts, e \in I.expected :
          /\ clock + t <= I.horizon
          /\ frame' = [frame EXCEPT ![p] =
                [IdleFrame EXCEPT
                    !.tool = "monitor_server_health",
                    !.service = url,
                    !.timeout_seconds = t,
                    !.expected_status_codes = IF e = None THEN {200} ELSE e[1],
                    !.arg_expected = e,
                    !.start_time = clock,
                    !.inv = ninv + 1,
                    !.probes = 1]]
    /\ pc' = [pc EXCEPT ![p] = "probing"]
    /\ ninv' = ninv + 1
    /\ UNCHANGED <<alert_state, clock, storage, completed>>

\* Lines 235-247: the response arrives within the timeout; the handler
\* classifies it and takes the timestamp, then awaits response.read().
ProbeRespond(p, I) ==
    /\ pc[p] = "probing"
    /\ clock - frame[p].start_time <= frame[p].timeout_seconds
    /\ \E status_code \in I.codes :
          frame' = [frame EXCEPT ![p].response =
              [status_code |-> status_code,
               response_time_ms |-> response_time(clock, frame[p].start_time),
               status |-> IF is_healthy(status_code, frame[p].expected_status_codes)
                            THEN "healthy" ELSE "unhealthy",
               timestamp |-> clock]]
    /\ pc' = [pc EXCEPT ![p] = "reading"]
    /\ UNCHANGED <<alert_state, clock, storage, ninv, completed>>

\* Lines 241-251: the body is read and the result is built; the handler
\* leaves the try block, records its metrics and awaits storage.get.
ReadBody(p) ==
    /\ pc[p] = "reading"
    /\ clock - frame[p].start_time <= frame[p].timeout_seconds
    /\ frame' = [frame EXCEPT ![p].sample = HealthCheckResult(frame[p])]
    /\ pc' = [pc EXCEPT ![p] = "get"]
    /\ UNCHANGED <<alert_state, clock, storage, ninv, completed>>

\* A slip of ProbeFail: the failed request is issued once more.
ProbeFailRetry(p, I) ==
    /\ pc[p] \in {"probing", "reading"}
    /\ frame[p].probes < 3
    /\ frame' = [frame EXCEPT ![p].probes = @ + 1]
    /\ pc' = [pc EXCEPT ![p] = "probing"]
    /\ UNCHANGED <<alert_state, clock, storage, ninv, completed>>

\* Lines 253-261: session.get or response.read() raises.
ProbeFail(p, I) ==
    /\ pc[p] \in {"probing", "reading"}
    /\ \E message \in I.messages :
          frame' = [frame EXCEPT
                       ![p].exception = Some(message),
                       ![p].sample = HealthCheckFailure(frame[p], clock, message)]
    /\ pc' = [pc EXCEPT ![p] = "get"]
    /\ UNCHANGED <<alert_state, clock, storage, ninv, completed>>

\* A slip of ProbeTimeout: the session is made without the ClientTimeout,
\* so no timeout ever expires.
ProbeNoTimeout(p, I) ==
    /\ pc[p] \in {"probing", "reading"}
    /\ FALSE
    /\ UNCHANGED vars

\* Lines 234, 253-261: ClientTimeout(total=timeout_seconds) expires while
\* the request or the read of the body is pending.
ProbeTimeout(p, I) ==
    /\ pc[p] \in {"probing", "reading"}
    /\ clock - frame[p].start_time >= frame[p].timeout_seconds
    /\ \E message \in I.messages :
          frame' = [frame EXCEPT
                       ![p].exception = Some(message),
                       ![p].timed_out = TRUE,
                       ![p].sample = HealthCheckFailure(frame[p], clock, message)]
    /\ pc' = [pc EXCEPT ![p] = "get"]
    /\ UNCHANGED <<alert_state, clock, storage, ninv, completed>>

\* Line 271 (329, 396, 624): history = await ctx.storage.get(history_key, [])
AwaitStorageGet(p) ==
    /\ pc[p] = "get"
    /\ frame' = [frame EXCEPT ![p].history =
                    StorageGet(storage, history_key(frame[p]), <<>>)]
    /\ pc' = [pc EXCEPT ![p] = "set"]
    /\ UNCHANGED <<alert_state, clock, storage, ninv, completed>>

\* A slip of HealthStore: the key is built without the service_url, so
\* every URL shares one history with the system snapshots' key.
HealthStoreSharedKey(p) ==
    /\ pc[p] = "set"
    /\ frame[p].tool = "monitor_server_health"
    /\ LET f == frame[p]
           history == HealthRetain(Append(f.history, f.sample))
       IN  /\ storage' = StorageSet(storage, system_status_history_key, history)
           /\ frame' = [frame EXCEPT ![p] = Returned(f, [kind |-> "result"])]
           /\ completed' = [completed EXCEPT ![history_key(f)] = @ + 1]
    /\ pc' = [pc EXCEPT ![p] = "done"]
    /\ UNCHANGED <<alert_state, clock, ninv>>

\* Lines 272-282: append, keep the last 100, store, return.
HealthStore(p) ==
    /\ pc[p] = "set"
    /\ frame[p].tool = "monitor_server_health"
    /\ LET f == frame[p]
           history == HealthRetain(Append(f.history, f.sample))
       IN  /\ storage' = StorageSet(storage, history_key(f), history)
           /\ frame' = [frame EXCEPT ![p] = Returned(f,
                 [kind |-> "result",
                  health_check |-> f.sample,
                  metrics_recorded |-> TRUE,
                  historical_checks |-> Len(history),
                  recommendations |-> _generate_health_recommendations(f.sample)])]
           /\ completed' = [completed EXCEPT ![history_key(f)] = @ + 1]
    /\ pc' = [pc EXCEPT ![p] = "done"]
    /\ UNCHANGED <<alert_state, clock, ninv>>

\* The wall clock advances.
Tick(I) ==
    /\ clock < I.horizon
    /\ clock' = clock + 1
    /\ UNCHANGED <<alert_state, storage, pc, frame, ninv, completed>>


(***************************************************************************)
(* collect_performance_metrics                                             *)
(***************************************************************************)

\* A slip of PerformanceMetrics: the dict is taken before memory_mb and
\* error_rate are filled in.
PerformanceMetricsPartial(service_name, now, cpu_percent, memory_mb, inv) ==
    [service_name |-> service_name,
     timestamp |-> now,
     cpu_percent |-> cpu_percent,
     inv |-> inv]

\* PerformanceMetrics(...).dict(); error_rate keeps its default 0.0.
PerformanceMetrics(service_name, now, cpu_percent, memory_mb, inv) ==
    [service_name |-> service_name,
     timestamp |-> now,
     cpu_percent |-> cpu_percent,
     memory_mb |-> memory_mb,
     error_rate |-> 0,
     inv |-> inv]

\* A slip of PerformanceRetain: history[:1000], which keeps the oldest.
PerformanceRetainOldest(history) ==
    SubSeq(history, 1, Min(Len(history), PerformanceCap))

\* history = history[-1000:]
PerformanceRetain(history) == LastN(history, PerformanceCap)

\* Lines 298-325: read psutil (blocking, no await) and build the sample.
InvokePerformance(p, I) ==
    /\ CanInvoke(p, I)
    /\ \E service_name \in I.services, cpu \in I.cpu, mem \in I.memory :
          frame' = [frame EXCEPT ![p] =
                [IdleFrame EXCEPT
                    !.tool = "collect_performance_metrics",
                    !.service = service_name,
                    !.sample = PerformanceMetrics(service_name, clock, cpu, mem, ninv + 1),
                    !.inv = ninv + 1]]
    /\ pc' = [pc EXCEPT ![p] = "get"]
    /\ ninv' = ninv + 1
    /\ UNCHANGED <<alert_state, clock, storage, completed>>

\* Lines 330-346: append, keep the last 1000, store; then the return
\* expression awaits _check_performance_alerts(...), a plain function that
\* returns a list: `await []` raises TypeError after the sample is stored.
PerformanceStore(p) ==
    /\ pc[p] = "set"
    /\ frame[p].tool = "collect_performance_metrics"
    /\ LET f == frame[p]
           history == PerformanceRetain(Append(f.history, f.sample))
       IN  /\ storage' = StorageSet(storage, history_key(f), history)
           /\ frame' = [frame EXCEPT ![p] = Returned(f,
                 [kind |-> "exception", type |-> "TypeError"])]
           /\ completed' = [completed EXCEPT ![history_key(f)] = @ + 1]
    /\ pc' = [pc EXCEPT ![p] = "done"]
    /\ UNCHANGED <<alert_state, clock, ninv>>

(***************************************************************************)
(* trace_mcp_calls                                                         *)
(***************************************************************************)

\* A slip of TraceInfo: the trace is recorded as failed.
TraceInfoFailed(service_name, operation_name, now, duration_ms, inv) ==
    [trace_id |-> inv,
     service_name |-> service_name,
     operation |-> operation_name,
     start_time |-> now,
     duration_ms |-> duration_ms,
     status |-> "error",
     inv |-> inv]

\* TraceInfo(...).dict(); the trace id is the span's, one per invocation.
TraceInfo(service_name, operation_name, now, duration_ms, inv) ==
    [trace_id |-> inv,
     service_name |-> service_name,
     operation |-> operation_name,
     start_time |-> now,
     duration_ms |-> duration_ms,
     status |-> "completed",
     inv |-> inv]

\* history = history[-500:]
TraceRetain(history) == LastN(history, TraceCap)

\* _analyze_trace_patterns: the number of distinct operations.
_analyze_trace_patterns(history) ==
    IF history = <<>> THEN [total_operations |-> 0]
    ELSE [total_operations |-> Cardinality({t.operation : t \in Range(history)})]

_generate_trace_insights(trace_info) ==
    IF trace_info.duration_ms > 1000
        THEN <<[text |-> "operation took longer than 1 second"]>> ELSE <<>>

\* Lines 371-392: open the span and build the trace record (no await).
InvokeTrace(p, I) ==
    /\ CanInvoke(p, I)
    /\ \E service_name \in I.services, op \in I.operations, d \in I.durations :
          frame' = [frame EXCEPT ![p] =
                [IdleFrame EXCEPT
                    !.tool = "trace_mcp_calls",
                    !.service = service_name,
                    !.sample = TraceInfo(service_name, op, clock, d, ninv + 1),
                    !.inv = ninv + 1]]
    /\ pc' = [pc EXCEPT ![p] = "get"]
    /\ ninv' = ninv + 1
    /\ UNCHANGED <<alert_state, clock, storage, completed>>

\* Lines 397-409: append, keep the last 500, store, return.
TraceStore(p) ==
    /\ pc[p] = "set"
    /\ frame[p].tool = "trace_mcp_calls"
    /\ LET f == frame[p]
           history == TraceRetain(Append(f.history, f.sample))
       IN  /\ storage' = StorageSet(storage, history_key(f), history)
           /\ frame' = [frame EXCEPT ![p] = Returned(f,
                 [kind |-> "result",
                  trace |-> f.sample,
                  patterns |-> _analyze_trace_patterns(history),
                  performance_insights |-> _generate_trace_insights(f.sample)])]
           /\ completed' = [completed EXCEPT ![history_key(f)] = @ + 1]
    /\ pc' = [pc EXCEPT ![p] = "done"]
    /\ UNCHANGED <<alert_state, clock, ninv>>

(***************************************************************************)
(* monitor_system_resources                                                *)
(***************************************************************************)

\* The system_status dict: the fields the analysis reads.
SystemStatus(now, cpu_percent, inv) ==
    [timestamp |-> now,
     cpu |-> cpu_percent,
     memory |-> 50,
     disk |-> 50,
     inv |-> inv]

_analyze_system_health(status) ==
    LET score == 100
                 - (IF status.cpu > 90 THEN 30 ELSE IF status.cpu > 70 THEN 10 ELSE 0)
                 - (IF status.memory > 90 THEN 30 ELSE IF status.memory > 80 THEN 15 ELSE 0)
                 - (IF status.disk > 95 THEN 25 ELSE IF status.disk > 85 THEN 10 ELSE 0)
    IN  [overall_score |-> Max(0, score),
         status |-> IF score >= 70 THEN "healthy"
                    ELSE IF score >= 40 THEN "degraded" ELSE "critical"]

\* history = history[-100:]
SystemRetain(history) == LastN(history, SystemCap)

\* Lines 554-620: read psutil (blocking, no await) and build the snapshot.
InvokeSystem(p, I) ==
    /\ CanInvoke(p, I)
    /\ \E cpu \in I.system_cpu :
          frame' = [frame EXCEPT ![p] =
                [IdleFrame EXCEPT
                    !.tool = "monitor_system_resources",
                    !.sample = SystemStatus(clock, cpu, ninv + 1),
                    !.inv = ninv + 1]]
    /\ pc' = [pc EXCEPT ![p] = "get"]
    /\ ninv' = ninv + 1
    /\ UNCHANGED <<alert_state, clock, storage, completed>>

\* Lines 625-642: append, keep the last 100, store, return.
SystemStore(p) ==
    /\ pc[p] = "set"
    /\ frame[p].tool = "monitor_system_resources"
    /\ LET f == frame[p]
           history == SystemRetain(Append(f.history, f.sample))
       IN  /\ storage' = StorageSet(storage, history_key(f), history)
           /\ frame' = [frame EXCEPT ![p] = Returned(f,
                 [kind |-> "result",
                  system_status |-> f.sample,
                  health_analysis |-> _analyze_system_health(f.sample),
                  has_trends |-> Len(history) > 1])]
           /\ completed' = [completed EXCEPT ![history_key(f)] = @ + 1]
    /\ pc' = [pc EXCEPT ![p] = "done"]
    /\ UNCHANGED <<alert_state, clock, ninv>>


(***************************************************************************)
(* generate_performance_reports                                            *)
(***************************************************************************)

\* All orders in which the elements of a finite set can be listed.
Orders(S) == {o \in [1..Cardinality(S) -> S] : Range(o) = S}

\* [item for item in history if fromisoformat(item["timestamp"]) > cutoff_date]
recent_items(history, cutoff_date) ==
    SelectSeq(history, LAMBDA item : item.timestamp > cutoff_date)

NoData == [kind |-> "error", error |-> "No performance data available"]

\* Lines 461-480: no in-window sample returns the error structure;
\* otherwise the report expression awaits _detect_performance_anomalies(...),
\* a plain function that returns a list: `await []` raises TypeError before
\* the report is stored.
report_outcome(is_empty) ==
    IF is_empty THEN NoData ELSE [kind |-> "exception", type |-> "TypeError"]

\* Lines 426-431: take the cutoff, then await the first storage access.
InvokeReport(p, I) ==
    /\ CanInvoke(p, I)
    /\ \E service_name \in I.report_services, days \in I.days :
          /\ frame' = [frame EXCEPT ![p] =
                [IdleFrame EXCEPT
                    !.tool = "generate_performance_reports",
                    !.service = service_name,
                    !.cutoff_date = clock - days,
                    !.inv = ninv + 1]]
          /\ pc' = [pc EXCEPT ![p] =
                IF service_name # "" THEN "report_get" ELSE "report_keys"]
    /\ ninv' = ninv + 1
    /\ UNCHANGED <<alert_state, clock, storage, completed>>

\* Lines 433-442, 461-480: one named service.  The stored timestamp is what
\* PerformanceMetrics.dict() holds; whether fromisoformat accepts what the
\* store hands back is the store's doing, so both outcomes are possible
\* when there is an item to parse.
ReportGet(p) ==
    /\ pc[p] = "report_get"
    /\ LET f == frame[p]
           history == StorageGet(storage, performance_history_key(f.service), <<>>)
       IN  \E parses \in BOOLEAN :
              /\ ~parses => history # <<>>
              /\ frame' = [frame EXCEPT
                    ![p].history = history,
                    ![p].recent_history =
                       IF parses THEN Some(recent_items(history, f.cutoff_date))
                                 ELSE None,
                    ![p].ret =
                       IF parses
                          THEN report_outcome(recent_items(history, f.cutoff_date) = <<>>)
                          ELSE [kind |-> "exception", type |-> "TypeError"]]
    /\ pc' = [pc EXCEPT ![p] = "done"]
    /\ UNCHANGED <<alert_state, clock, storage, ninv, completed>>

\* Lines 444-447: all services; list the keys of the performance histories.
ReportKeys(p) ==
    /\ pc[p] = "report_keys"
    /\ LET perf == {k \in StorageKeys(storage) : k[1] = "performance_history"}
       IN  \E order \in Orders(perf) :
              /\ frame' = [frame EXCEPT
                    ![p].perf_keys = order,
                    ![p].ret = IF order = <<>> THEN report_outcome(TRUE) ELSE NoReturn]
              /\ pc' = [pc EXCEPT ![p] = IF order = <<>> THEN "done" ELSE "report_scan"]
    /\ UNCHANGED <<alert_state, clock, storage, ninv, completed>>

\* Lines 449-480: one turn of the loop over the keys, and after the last
\* key the rest of the handler.
ReportScan(p) ==
    /\ pc[p] = "report_scan"
    /\ LET f == frame[p]
           key == Head(f.perf_keys)
           service == key[2]
           history == StorageGet(storage, key, <<>>)
           recent == recent_items(history, f.cutoff_date)
           all_history ==
               IF recent # <<>>
                  THEN [k \in DOMAIN f.all_history \cup {service} |->
                            IF k = service THEN recent ELSE f.all_history[k]]
                  ELSE f.all_history
           last == Tail(f.perf_keys) = <<>>
       IN  \E parses \in BOOLEAN :
              /\ ~parses => history # <<>>
              /\ frame' = [frame EXCEPT
                    ![p].history = history,
                    ![p].perf_keys = Tail(f.perf_keys),
                    ![p].all_history = IF parses THEN all_history ELSE f.all_history,
                    ![p].ret =
                       IF ~parses THEN [kind |-> "exception", type |-> "TypeError"]
                       ELSE IF last THEN report_outcome(DOMAIN all_history = {})
                       ELSE NoReturn]
              /\ pc' = [pc EXCEPT ![p] =
                    IF ~parses \/ last THEN "done" ELSE "report_scan"]
    /\ UNCHANGED <<alert_state, clock, storage, ninv, completed>>

(***************************************************************************)
(* alert_on_anomalies                                                      *)
(***************************************************************************)

\* The metrics the rules are written on, and the (service, metric) pairs.
MetricNames == {"cpu_percent", "memory_mb", "error_rate"}
AlertPairs == ServiceNames \X MetricNames

\* AlertConfig(**config) succeeds: the required fields are there.
ValidAlertConfig(config) ==
    {"metric_name", "threshold", "operator", "severity"} \subseteq DOMAIN config

\* AlertConfig(**config).dict(): enabled defaults to True; operator and
\* severity are plain str fields, any string is accepted.
ParseAlertConfig(config) ==
    [metric_name |-> config.metric_name,
     threshold |-> config.threshold,
     operator |-> config.operator,
     severity |-> config.severity,
     enabled |-> IF "enabled" \in DOMAIN config THEN config.enabled ELSE TRUE]

\* Lines 887-889: a stub.
_detect_service_anomalies(service, history, configs) == <<>>

\* Lines 891-893: a stub.
_check_active_alerts(service, history, configs) == <<>>

\* Lines 895-897.
_generate_alert_recommendations(alerts, anomalies) ==
    <<"Review alert configurations", "Set up notification channels">>

\* Lines 536-541.
AlertResult(f, anomalies, active_alerts) ==
    [kind |-> "result",
     active_alerts |-> active_alerts,
     detected_anomalies |-> anomalies,
     alert_configs |-> f.alert_configs,
     recommendations |-> _generate_alert_recommendations(active_alerts, anomalies)]

\* The rule's comparison of a value with its threshold (both in
\* hundredths); a rule with another operator compares nothing.
Satisfies(config, value) ==
    CASE config.operator = "gt" -> value > config.threshold
      [] config.operator = "lt" -> value < config.threshold
      [] config.operator = "eq" -> value = config.threshold
      [] config.operator = "ne" -> value # config.threshold
      [] OTHER -> FALSE

\* The state of each pair once the services in `checked` are evaluated:
\* ALERTING when the latest sample read satisfies an enabled rule on the
\* metric, NORMAL when it does not; other pairs stay as they were.
Evaluated(state, configs, checked) ==
    [pair \in AlertPairs |->
        LET rules == {i \in 1..Len(configs) :
                         configs[i].enabled /\ configs[i].metric_name = pair[2]}
        IN  IF pair[1] \in DOMAIN checked /\ rules # {}
               THEN IF \E i \in rules :
                          Satisfies(configs[i], checked[pair[1]][pair[2]] * 100)
                       THEN "ALERTING" ELSE "NORMAL"
               ELSE state[pair]]

\* Lines 496-501: start, await the stored rule set.
InvokeAlert(p, I) ==
    /\ CanInvoke(p, I)
    /\ \E service_name \in I.alert_services :
          frame' = [frame EXCEPT ![p] =
                [IdleFrame EXCEPT
                    !.tool = "alert_on_anomalies",
                    !.service = service_name,
                    !.inv = ninv + 1]]
    /\ pc' = [pc EXCEPT ![p] = "alert_configs"]
    /\ ninv' = ninv + 1
    /\ UNCHANGED <<alert_state, clock, storage, completed>>

\* Lines 501-513: parse the rule set (a malformed rule raises the
\* ValidationError of AlertConfig), then either take the named service or
\* await the keys of the store.
AlertConfigs(p) ==
    /\ pc[p] = "alert_configs"
    /\ LET f == frame[p]
           alert_configs_raw == StorageGet(storage, alert_configs_key, <<>>)
           valid == \A i \in 1..Len(alert_configs_raw) :
                       ValidAlertConfig(alert_configs_raw[i])
       IN  IF ~valid
              THEN /\ frame' = [frame EXCEPT ![p].ret =
                         [kind |-> "exception", type |-> "ValidationError"]]
                   /\ pc' = [pc EXCEPT ![p] = "done"]
              ELSE /\ frame' = [frame EXCEPT
                         ![p].alert_configs =
                             [i \in 1..Len(alert_configs_raw) |->
                                 ParseAlertConfig(alert_configs_raw[i])],
                         ![p].services_to_check =
                             IF f.service # "" THEN <<f.service>> ELSE <<>>]
                   /\ pc' = [pc EXCEPT ![p] =
                         IF f.service # "" THEN "alert_scan" ELSE "alert_keys"]
    /\ UNCHANGED <<alert_state, clock, storage, ninv, completed>>

\* Lines 511-513 (and 530-541 when there is nothing to check): all
\* services with a performance history, in the order the store lists them.
AlertKeys(p) ==
    /\ pc[p] = "alert_keys"
    /\ LET f == frame[p]
           perf == {k \in StorageKeys(storage) : k[1] = "performance_history"}
       IN  \E order \in Orders(perf) :
              /\ frame' = [frame EXCEPT
                    ![p].services_to_check = [i \in 1..Len(order) |-> order[i][2]],
                    ![p].ret = IF order = <<>>
                                  THEN AlertResult(f, <<>>, <<>>) ELSE NoReturn]
              /\ pc' = [pc EXCEPT ![p] = IF order = <<>> THEN "done" ELSE "alert_scan"]
    /\ UNCHANGED <<alert_state, clock, storage, ninv, completed>>

\* Lines 515-541: one turn of the loop over services_to_check (the two
\* helpers are awaited but never suspend), and after the last service the
\* rest of the handler.
AlertScan(p) ==
    /\ pc[p] = "alert_scan"
    /\ LET f == frame[p]
           svc == Head(f.services_to_check)
           history == StorageGet(storage, performance_history_key(svc), <<>>)
           anomalies ==
               IF history = <<>> THEN f.anomalies
               ELSE f.anomalies \o _detect_service_anomalies(svc, history, f.alert_configs)
           active_alerts ==
               IF history = <<>> THEN f.active_alerts
               ELSE f.active_alerts \o _check_active_alerts(svc, history, f.alert_configs)
           checked ==
               IF history = <<>> THEN f.checked
               ELSE [k \in DOMAIN f.checked \cup {svc} |->
                        IF k = svc THEN Last(history) ELSE f.checked[k]]
           last == Tail(f.services_to_check) = <<>>
       IN  /\ frame' = [frame EXCEPT
                 ![p].history = history,
                 ![p].services_to_check = Tail(f.services_to_check),
                 ![p].anomalies = anomalies,
                 ![p].active_alerts = active_alerts,
                 ![p].checked = checked,
                 ![p].ret = IF last THEN AlertResult(f, anomalies, active_alerts)
                                    ELSE NoReturn]
           /\ pc' = [pc EXCEPT ![p] = IF last THEN "done" ELSE "alert_scan"]
           /\ alert_state' = IF last THEN Evaluated(alert_state, f.alert_configs, checked)
                                     ELSE alert_state
    /\ UNCHANGED <<clock, storage, ninv, completed>>

(***************************************************************************)
(* analyze_mcp_interactions                                                *)
(***************************************************************************)

\* A quotient n / d (d > 0) as a fraction in lowest terms.
RECURSIVE Gcd(_, _)
Gcd(a, b) == IF b = 0 THEN a ELSE Gcd(b, a % b)

Quotient(n, d) == <<n \div Gcd(n, d), d \div Gcd(n, d)>>

\* The literal 0 of the else branches.
Zero == <<0, 1>>

\* datetime.fromisoformat(timestamp).hour, a day being HoursPerDay clock
\* units long.
hour(timestamp) == timestamp % HoursPerDay

\* sum(t["duration_ms"] for t in traces)
RECURSIVE DurationTotal(_)
DurationTotal(traces) ==
    IF traces = <<>> THEN 0
    ELSE traces[1].duration_ms + DurationTotal(Tail(traces))

\* A slip of InsertReverse: an item goes before the items of equal key.
RECURSIVE InsertReverseUnstable(_, _)
InsertReverseUnstable(sorted, x) ==
    IF sorted = <<>> THEN <<x>>
    ELSE IF Head(sorted)[1] > x[1]
            THEN <<Head(sorted)>> \o InsertReverseUnstable(Tail(sorted), x)
            ELSE <<x>> \o sorted

\* sorted(..., reverse=True) on <<key, item>> pairs, one item at a time:
\* descending keys, and the sort is stable, so an item goes after the items
\* of equal key that came before it.
RECURSIVE InsertReverse(_, _)
InsertReverse(sorted, x) ==
    IF sorted = <<>> THEN <<x>>
    ELSE IF Head(sorted)[1] >= x[1]
            THEN <<Head(sorted)>> \o InsertReverse(Tail(sorted), x)
            ELSE <<x>> \o sorted

RECURSIVE SortedReverse(_)
SortedReverse(pairs) ==
    IF pairs = <<>> THEN <<>>
    ELSE InsertReverse(SortedReverse(SubSeq(pairs, 1, Len(pairs) - 1)),
                       pairs[Len(pairs)])

\* A slip of HourKeys: the hours met, listed in ascending order.
HourKeysAscending(traces) ==
    LET met == {hour(traces[i].timestamp) : i \in 1..Len(traces)}
    IN  CHOOSE keys \in [1..Cardinality(met) -> met] :
           \A i, j \in 1..Cardinality(met) : i < j => keys[i] < keys[j]

\* hours.keys(): a dict lists its keys in the order they were first set,
\* here the order in which the hours are first met in the trace list.
RECURSIVE HourKeys(_)
HourKeys(traces) ==
    IF traces = <<>> THEN <<>>
    ELSE LET before == HourKeys(SubSeq(traces, 1, Len(traces) - 1))
             h == hour(traces[Len(traces)].timestamp)
         IN  IF h \in Range(before) THEN before ELSE Append(before, h)

\* hours[x]: the number of traces in hour x.
HourCount(traces, x) ==
    Cardinality({i \in 1..Len(traces) : hour(traces[i].timestamp) = x})

\* Lines 943-950.
_find_peak_usage_hours(traces) ==
    LET keys == HourKeys(traces)
        sorted == SortedReverse([i \in 1..Len(keys) |->
                                    <<HourCount(traces, keys[i]), keys[i]>>])
    IN  [i \in 1..Min(PeakHours, Len(sorted)) |-> sorted[i][2]]

\* Lines 952-955; x.get("duration_ms", 0).
_find_slowest_operations(traces) ==
    LET sorted_traces ==
           SortedReverse([i \in 1..Len(traces) |->
              <<IF "duration_ms" \in DOMAIN traces[i]
                   THEN traces[i].duration_ms ELSE 0, traces[i]>>])
    IN  [i \in 1..Min(SlowestOperations, Len(sorted_traces)) |-> sorted_traces[i][2]]

\* t.get("status") != "completed"
IsError(t) == ~("status" \in DOMAIN t /\ t.status = "completed")

\* A slip of _analyze_error_patterns: the errors are the completed traces.
_analyze_error_patternsCompleted(traces) ==
    LET errors == SelectSeq(traces, LAMBDA t : ~IsError(t))
    IN  [total_errors |-> Len(errors),
         error_rate |-> IF traces # <<>> THEN Quotient(Len(errors), Len(traces))
                                         ELSE Zero]

\* Lines 957-960.
_analyze_error_patterns(traces) ==
    LET errors == SelectSeq(traces, IsError)
    IN  [total_errors |-> Len(errors),
         error_rate |-> IF traces # <<>> THEN Quotient(Len(errors), Len(traces))
                                         ELSE Zero]

\* Lines 681-685: the statistics of one service.
ServiceStats(recent_traces) ==
    [total_calls |-> Len(recent_traces),
     avg_duration |->
        IF recent_traces # <<>>
           THEN Quotient(DurationTotal(recent_traces), Len(recent_traces))
           ELSE Zero,
     error_rate |->
        IF recent_traces # <<>>
           THEN Quotient(Len(SelectSeq(recent_traces, IsError)), Len(recent_traces))
           ELSE Zero]

NoInteractionData == [kind |-> "error", error |-> "No interaction data available"]

\* Lines 687-716: what the handler returns once every key is scanned.
AnalysisResult(days, all_traces, service_stats) ==
    IF all_traces = <<>> THEN NoInteractionData
    ELSE LET patterns ==
                [total_interactions |-> Len(all_traces),
                 unique_services |-> Cardinality(DOMAIN service_stats),
                 peak_hours |-> _find_peak_usage_hours(all_traces),
                 slowest_operations |-> _find_slowest_operations(all_traces),
                 error_patterns |-> _analyze_error_patterns(all_traces),
                 service_comparison |-> service_stats]
         IN  [kind |-> "result",
              analysis_period_days |-> days,
              patterns |-> patterns,
              insights |-> [usage_trends |-> [trend |-> "increasing"]],
              recommendations |-> <<"Optimize frequently called operations",
                                    "Implement caching for hot paths">>]

\* Lines 657-664: take the cutoff, await the keys of the store.
InvokeAnalyze(p, I) ==
    /\ CanInvoke(p, I)
    /\ \E days \in I.days :
          frame' = [frame EXCEPT ![p] =
                [IdleFrame EXCEPT
                    !.tool = "analyze_mcp_interactions",
                    !.days = days,
                    !.cutoff_date = clock - days,
                    !.inv = ninv + 1]]
    /\ pc' = [pc EXCEPT ![p] = "analyze_keys"]
    /\ ninv' = ninv + 1
    /\ UNCHANGED <<alert_state, clock, storage, completed>>

\* Lines 664-665 (and 687-688 when there is no trace history): the keys of
\* the trace histories, in the order the store lists them.
AnalyzeKeys(p) ==
    /\ pc[p] = "analyze_keys"
    /\ LET f == frame[p]
           keys == {k \in StorageKeys(storage) : k[1] = "trace_history"}
       IN  \E order \in Orders(keys) :
              /\ frame' = [frame EXCEPT
                    ![p].trace_keys = order,
                    ![p].ret = IF order = <<>>
                                  THEN AnalysisResult(f.days, <<>>, <<>>)
                                  ELSE NoReturn]
              /\ pc' = [pc EXCEPT ![p] = IF order = <<>> THEN "done" ELSE "analyze_scan"]
    /\ UNCHANGED <<alert_state, clock, storage, ninv, completed>>

\* Lines 670-716: one turn of the loop over the keys, and after the last
\* key the rest of the handler.  The filter reads trace["timestamp"] of
\* every trace of the list: a trace without that key raises KeyError.
AnalyzeScan(p) ==
    /\ pc[p] = "analyze_scan"
    /\ LET f == frame[p]
           key == Head(f.trace_keys)
           service_name == key[2]
           traces == StorageGet(storage, key, <<>>)
           readable == \A i \in 1..Len(traces) : "timestamp" \in DOMAIN traces[i]
           recent_traces ==
               SelectSeq(traces, LAMBDA trace : trace.timestamp > f.cutoff_date)
           all_traces == f.all_traces \o recent_traces
           service_stats ==
               [k \in DOMAIN f.service_stats \cup {service_name} |->
                   IF k = service_name THEN ServiceStats(recent_traces)
                                       ELSE f.service_stats[k]]
           last == Tail(f.trace_keys) = <<>>
       IN  IF ~readable
              THEN /\ frame' = [frame EXCEPT
                         ![p].history = traces,
                         ![p].ret = [kind |-> "exception", type |-> "KeyError"]]
                   /\ pc' = [pc EXCEPT ![p] = "done"]
              ELSE /\ frame' = [frame EXCEPT
                         ![p].history = traces,
                         ![p].trace_keys = Tail(f.trace_keys),
                         ![p].all_traces = all_traces,
                         ![p].service_stats = service_stats,
                         ![p].ret = IF last
                                       THEN AnalysisResult(f.days, all_traces, service_stats)
                                       ELSE NoReturn]
                   /\ pc' = [pc EXCEPT ![p] = IF last THEN "done" ELSE "analyze_scan"]
    /\ UNCHANGED <<alert_state, clock, storage, ninv, completed>>

(***************************************************************************)
(* export_metrics                                                          *)
(***************************************************************************)

\* "_history:" in k: the keys made of a history prefix, a colon and a name
\* (system_status_history has no colon).
IsHistoryKey(k) ==
    k[1] \in {"health_history", "performance_history", "trace_history"}

\* _collect_current_metrics()
_collect_current_metrics == [current_metrics |-> "Would be collected from OpenTelemetry"]

\* _collect_recent_traces(ctx)
_collect_recent_traces == <<>>

\* Lines 737-743.
PrometheusExport ==
    [kind |-> "result",
     format |-> "prometheus",
     endpoint |-> "http://localhost:9090/metrics",
     message |-> "Metrics available at Prometheus endpoint"]

\* Lines 745-751.
OpenTelemetryExport(include_history) ==
    [kind |-> "result",
     format |-> "opentelemetry",
     metrics |-> _collect_current_metrics,
     traces |-> IF include_history THEN Some(_collect_recent_traces) ELSE None]

\* A slip of JsonExport: the dict starts with an empty history block.
JsonExportWithHistory(now) ==
    [kind |-> "result",
     timestamp |-> now,
     metrics |-> _collect_current_metrics,
     version |-> "0.1.0",
     history |-> <<>>]

\* Lines 755-759: export_data before the history is added.
JsonExport(now) ==
    [kind |-> "result",
     timestamp |-> now,
     metrics |-> _collect_current_metrics,
     version |-> "0.1.0"]

\* Line 774.
UnsupportedFormat == [kind |-> "error", error |-> "Unsupported format"]

\* export_data["history"] = {}
WithHistory(export_data) ==
    [field \in DOMAIN export_data \cup {"history"} |->
        IF field = "history" THEN <<>> ELSE export_data[field]]

\* export_data["history"][key] = entries
WithHistoryEntry(export_data, key, entries) ==
    [export_data EXCEPT !.history =
        [k \in DOMAIN export_data.history \cup {key} |->
            IF k = key THEN entries ELSE export_data.history[k]]]

\* Lines 733-764: every format but json with history returns at once; json
\* with history builds export_data and awaits the keys of the store.
InvokeExport(p, I) ==
    /\ CanInvoke(p, I)
    /\ \E format \in I.formats, include_history \in I.include_history :
          LET scans == format = "json" /\ include_history
              ret == CASE format = "prometheus" -> PrometheusExport
                       [] format = "opentelemetry" -> OpenTelemetryExport(include_history)
                       [] format = "json" -> JsonExport(clock)
                       [] OTHER -> UnsupportedFormat
          IN  /\ frame' = [frame EXCEPT ![p] =
                    [IdleFrame EXCEPT
                        !.tool = "export_metrics",
                        !.format = format,
                        !.include_history = include_history,
                        !.export_data = IF scans THEN JsonExport(clock) ELSE <<>>,
                        !.ret = IF scans THEN NoReturn ELSE ret,
                        !.inv = ninv + 1]]
              /\ pc' = [pc EXCEPT ![p] = IF scans THEN "export_keys" ELSE "done"]
    /\ ninv' = ninv + 1
    /\ UNCHANGED <<alert_state, clock, storage, completed>>

\* Lines 763-767: the first 10 history keys, in the order the store lists
\* its keys, and an empty history block.
ExportKeys(p) ==
    /\ pc[p] = "export_keys"
    /\ LET f == frame[p]
           export_data == WithHistory(f.export_data)
       IN  \E storage_keys \in Orders(StorageKeys(storage)) :
              LET matching == SelectSeq(storage_keys, IsHistoryKey)
                  history_keys == SubSeq(matching, 1, Min(ExportKeyLimit, Len(matching)))
              IN  /\ frame' = [frame EXCEPT
                        ![p].history_keys = history_keys,
                        ![p].export_data = export_data,
                        ![p].ret = IF history_keys = <<>> THEN export_data ELSE NoReturn]
                  /\ pc' = [pc EXCEPT ![p] =
                        IF history_keys = <<>> THEN "done" ELSE "export_scan"]
    /\ UNCHANGED <<alert_state, clock, storage, ninv, completed>>

\* A slip of ExportScan: the history read is taken out of the store.
ExportScanDrains(p) ==
    /\ pc[p] = "export_scan"
    /\ LET f == frame[p]
           key == Head(f.history_keys)
           history == LastN(StorageGet(storage, key, <<>>), ExportEntries)
           export_data == WithHistoryEntry(f.export_data, key, history)
           last == Tail(f.history_keys) = <<>>
       IN  /\ frame' = [frame EXCEPT
                 ![p].history_keys = Tail(f.history_keys),
                 ![p].export_data = export_data,
                 ![p].ret = IF last THEN export_data ELSE NoReturn]
           /\ storage' = StorageSet(storage, key, <<>>)
           /\ pc' = [pc EXCEPT ![p] = IF last THEN "done" ELSE "export_scan"]
    /\ UNCHANGED <<alert_state, clock, ninv, completed>>

\* Lines 767-771: one turn of the loop over the history keys: read the
\* history, keep its last 100 entries; after the last key, return.
ExportScan(p) ==
    /\ pc[p] = "export_scan"
    /\ LET f == frame[p]
           key == Head(f.history_keys)
           history == StorageGet(storage, key, <<>>)
           export_data == WithHistoryEntry(f.export_data, key, LastN(history, ExportEntries))
           last == Tail(f.history_keys) = <<>>
       IN  /\ frame' = [frame EXCEPT
                 ![p].history = history,
                 ![p].history_keys = Tail(f.history_keys),
                 ![p].export_data = export_data,
                 ![p].ret = IF last THEN export_data ELSE NoReturn]
           /\ pc' = [pc EXCEPT ![p] = IF last THEN "done" ELSE "export_scan"]
    /\ UNCHANGED <<alert_state, clock, storage, ninv, completed>>

(***************************************************************************)
(* Failures of the store.                                                  *)
(***************************************************************************)

\* The places at which a handler awaits ctx.storage (get, set or keys).
StoragePoints ==
    {"get", "set", "report_get", "report_keys", "report_scan",
     "alert_configs", "alert_keys", "alert_scan",
     "analyze_keys", "analyze_scan", "export_keys", "export_scan"}

StorageError(at) == [kind |-> "exception", type |-> "StorageError", at |-> at]

\* A slip of StorageFails: the sample appended to the list read from the
\* store has reached the store although set raised.
StorageFailsAfterAppend(p) ==
    /\ pc[p] \in StoragePoints
    /\ frame' = [frame EXCEPT ![p].ret = StorageError(pc[p])]
    /\ pc' = [pc EXCEPT ![p] = "done"]
    /\ storage' = IF pc[p] = "set"
                     THEN StorageSet(storage, history_key(frame[p]),
                                     Append(frame[p].history, frame[p].sample))
                     ELSE storage
    /\ UNCHANGED <<alert_state, clock, ninv, completed>>

\* An awaited ctx.storage call raises.  No handler has a try around its
\* storage calls (those of monitor_server_health come after its except
\* block, lines 269-275), so the exception leaves the handler; the call
\* that raised has changed nothing.
StorageFails(p) ==
    /\ pc[p] \in StoragePoints
    /\ frame' = [frame EXCEPT ![p].ret = StorageError(pc[p])]
    /\ pc' = [pc EXCEPT ![p] = "done"]
    /\ UNCHANGED <<alert_state, clock, storage, ninv, completed>>

(***************************************************************************)
(* The system.                                                             *)
(***************************************************************************)
HistoryKeys ==
    {health_history_key(u) : u \in ServiceUrls}
    \cup {performance_history_key(n) : n \in ServiceNames}
    \cup {trace_history_key(n) : n \in ServiceNames}
    \cup {system_status_history_key}

\* The retention cap of a history key.
Cap(key) ==
    CASE key[1] = "health_history" -> HealthCap
      [] key[1] = "performance_history" -> PerformanceCap
      [] key[1] = "trace_history" -> TraceCap
      [] key[1] = "system_status_history" -> SystemCap

Init ==
    /\ clock = 0
    /\ storage = server_lifespan
    /\ pc = [p \in Procs |-> "idle"]
    /\ frame = [p \in Procs |-> IdleFrame]
    /\ ninv = 0
    /\ completed = [k \in HistoryKeys |-> 0]
    /\ alert_state = [pair \in AlertPairs |-> "NORMAL"]

\* The store is exercised with one choice per payload field.
StoreInputs ==
    [AllInputs EXCEPT
        !.max_inv = MaxInv, !.horizon = StoreHorizon,
        !.urls = {"http://a"}, !.services = {"system"},
        !.report_services = {"system", ""},
        !.timeouts = {1}, !.expected = {None}, !.codes = {200},
        !.messages = {"Connection failed"}, !.cpu = {50}, !.durations = {100},
        !.system_cpu = {35}, !.days = {1}]

\* The segments of monitor_server_health.
HealthStep(p, I) ==
    \/ InvokeHealth(p, I)
    \/ ProbeRespond(p, I)
    \/ ReadBody(p)
    \/ ProbeFail(p, I)
    \/ ProbeTimeout(p, I)
    \/ HealthStore(p)

\* The segments of the other appending tools.
AppendStep(p, I) ==
    \/ InvokePerformance(p, I)
    \/ PerformanceStore(p)
    \/ InvokeTrace(p, I)
    \/ TraceStore(p)
    \/ InvokeSystem(p, I)
    \/ SystemStore(p)

\* The segments of trace_mcp_calls.
TraceStep(p, I) ==
    \/ InvokeTrace(p, I)
    \/ TraceStore(p)

\* The segments of analyze_mcp_interactions.
AnalyzeStep(p, I) ==
    \/ InvokeAnalyze(p, I)
    \/ AnalyzeKeys(p)
    \/ AnalyzeScan(p)

\* The segments of export_metrics.
ExportStep(p, I) ==
    \/ InvokeExport(p, I)
    \/ ExportKeys(p)
    \/ ExportScan(p)

\* The segments of generate_performance_reports.
ReportStep(p, I) ==
    \/ InvokeReport(p, I)
    \/ ReportGet(p)
    \/ ReportKeys(p)
    \/ ReportScan(p)

\* Overlapping invocations of the four appending tools on one store.
Next ==
    \/ Tick(StoreInputs)
    \/ \E p \in Procs :
          \/ HealthStep(p, StoreInputs)
          \/ AppendStep(p, StoreInputs)
          \/ AwaitStorageGet(p)

Spec == Init /\ [][Next]_vars

\* Overlapping collect_performance_metrics and generate_performance_reports:
\* writers and readers of the performance histories.
ReadInputs == [StoreInputs EXCEPT !.services = ServiceNames]

PerformanceStep(p, I) ==
    \/ InvokePerformance(p, I)
    \/ PerformanceStore(p)

ReadNext ==
    \/ Tick(ReadInputs)
    \/ \E p \in Procs :
          \/ PerformanceStep(p, ReadInputs)
          \/ ReportStep(p, ReadInputs)
          \/ AwaitStorageGet(p)

ReadSpec == Init /\ [][ReadNext]_vars

\* Reports over histories that age: the clock runs past the window, so a
\* stored sample can be inside it, on its edge or older.
ReportInputs ==
    [StoreInputs EXCEPT
        !.max_inv = MaxReportInv, !.horizon = ReportHorizon,
        !.services = ServiceNames, !.days = {1},
        !.report_services = {"system", ""}]

ReportNext ==
    \/ Tick(ReportInputs)
    \/ \E p \in Procs :
          \/ PerformanceStep(p, ReportInputs)
          \/ ReportStep(p, ReportInputs)
          \/ AwaitStorageGet(p)

ReportSpec == Init /\ [][ReportNext]_vars

\* Invocations one at a time: a handler starts only when no other is in
\* flight.
SeqInputs == [StoreInputs EXCEPT !.max_inv = MaxSeqInv, !.sequential = TRUE]

SeqNext ==
    \/ Tick(SeqInputs)
    \/ \E p \in Procs :
          \/ HealthStep(p, SeqInputs)
          \/ AppendStep(p, SeqInputs)
          \/ AwaitStorageGet(p)

SeqSpec == Init /\ [][SeqNext]_vars

\* monitor_server_health alone, one invocation at a time on one URL, over
\* all its arguments and all the probe's outcomes.
HealthInputs == [AllInputs EXCEPT !.urls = {"http://a"}, !.sequential = TRUE]

HealthNext ==
    \/ Tick(HealthInputs)
    \/ \E p \in Procs :
          \/ HealthStep(p, HealthInputs)
          \/ AwaitStorageGet(p)

HealthSpec == Init /\ [][HealthNext]_vars

\* The same under the scheduling the event loop gives: a handler that can
\* resume does resume, the timeout of a pending probe does fire, and time
\* passes.  Nothing obliges the target to answer.
LiveSpec ==
    /\ HealthSpec
    /\ WF_vars(Tick(HealthInputs))
    /\ \A p \in Procs :
          /\ WF_vars(ProbeTimeout(p, HealthInputs))
          /\ WF_vars(AwaitStorageGet(p))
          /\ WF_vars(HealthStore(p))


\* The segments of alert_on_anomalies.
AlertStep(p, I) ==
    \/ InvokeAlert(p, I)
    \/ AlertConfigs(p)
    \/ AlertKeys(p)
    \/ AlertScan(p)

\* collect_performance_metrics and alert_on_anomalies, overlapping, from
\* startup: samples below and above the cpu threshold, one or two services.
AlertInputs ==
    [StoreInputs EXCEPT
        !.max_inv = MaxAlertInv, !.horizon = 0,
        !.services = ServiceNames, !.cpu = {50, 95}]

AlertNext ==
    \E p \in Procs :
       \/ PerformanceStep(p, AlertInputs)
       \/ AlertStep(p, AlertInputs)
       \/ AwaitStorageGet(p)

AlertSpec == Init /\ [][AlertNext]_vars

\* The rule sets alert_on_anomalies is handed through the store: the
\* default one, the one of the tests (no enabled field written), one with
\* an operator outside gt, lt, eq, ne, and one without its threshold.
AlertRuleSets ==
    {default_alerts,
     <<[metric_name |-> "cpu_percent", threshold |-> 8000,
        operator |-> "gt", severity |-> "warning"]>>,
     <<AlertConfig("cpu_percent", 9000, "above", "warning")>>,
     <<[metric_name |-> "cpu_percent", operator |-> "gt", severity |-> "warning"]>>}

\* A store whose rule set was written from outside the tools.
RuleInit ==
    /\ clock = 0
    /\ \E rules \in AlertRuleSets :
          storage = StorageSet(server_lifespan, alert_configs_key, rules)
    /\ pc = [p \in Procs |-> "idle"]
    /\ frame = [p \in Procs |-> IdleFrame]
    /\ ninv = 0
    /\ completed = [k \in HistoryKeys |-> 0]
    /\ alert_state = [pair \in AlertPairs |-> "NORMAL"]

RuleInputs == [AlertInputs EXCEPT !.max_inv = MaxRuleInv, !.services = {"system"}]

RuleNext ==
    \E p \in Procs :
       \/ PerformanceStep(p, RuleInputs)
       \/ AlertStep(p, RuleInputs)
       \/ AwaitStorageGet(p)

RuleSpec == RuleInit /\ [][RuleNext]_vars

\* Every tool modelled, overlapping, from startup.
ToolsInputs == [StoreInputs EXCEPT !.max_inv = MaxToolsInv]

ToolsNext ==
    \/ Tick(ToolsInputs)
    \/ \E p \in Procs :
          \/ HealthStep(p, ToolsInputs)
          \/ AppendStep(p, ToolsInputs)
          \/ ReportStep(p, ToolsInputs)
          \/ AlertStep(p, ToolsInputs)
          \/ AnalyzeStep(p, ToolsInputs)
          \/ ExportStep(p, ToolsInputs)
          \/ AwaitStorageGet(p)

ToolsSpec == Init /\ [][ToolsNext]_vars

\* Reports after the samples are recorded: one call at a time.
UnionInputs == [ReportInputs EXCEPT !.sequential = TRUE]

UnionNext ==
    \/ Tick(UnionInputs)
    \/ \E p \in Procs :
          \/ PerformanceStep(p, UnionInputs)
          \/ ReportStep(p, UnionInputs)
          \/ AwaitStorageGet(p)

UnionSpec == Init /\ [][UnionNext]_vars

\* Every tool modelled, over a store whose calls may raise.
FailInputs == [StoreInputs EXCEPT !.max_inv = MaxFailInv]

FailNext ==
    \/ Tick(FailInputs)
    \/ \E p \in Procs :
          \/ HealthStep(p, FailInputs)
          \/ AppendStep(p, FailInputs)
          \/ ReportStep(p, FailInputs)
          \/ AlertStep(p, FailInputs)
          \/ AnalyzeStep(p, FailInputs)
          \/ ExportStep(p, FailInputs)
          \/ AwaitStorageGet(p)
          \/ StorageFails(p)

FailSpec == Init /\ [][FailNext]_vars

\* export_metrics over the histories the appending tools write.
ExportInputs ==
    [StoreInputs EXCEPT
        !.max_inv = MaxExportInv,
        !.horizon = 0,
        !.services = ServiceNames,
        !.formats = {"prometheus", "opentelemetry", "json", "xml"},
        !.include_history = BOOLEAN]

ExportNext ==
    \E p \in Procs :
       \/ AppendStep(p, ExportInputs)
       \/ ExportStep(p, ExportInputs)
       \/ AwaitStorageGet(p)

ExportSpec == Init /\ [][ExportNext]_vars

\* trace_mcp_calls and analyze_mcp_interactions, one call at a time, from
\* startup, with a clock that runs past the window.
InteractInputs ==
    [StoreInputs EXCEPT
        !.max_inv = MaxInteractInv, !.sequential = TRUE,
        !.horizon = InteractHorizon,
        !.services = ServiceNames, !.days = {1}]

InteractNext ==
    \/ Tick(InteractInputs)
    \/ \E p \in Procs :
          \/ TraceStep(p, InteractInputs)
          \/ AnalyzeStep(p, InteractInputs)
          \/ AwaitStorageGet(p)

InteractSpec == Init /\ [][InteractNext]_vars

\* A trace as the tests hand it to analyze_mcp_interactions: a dict with a
\* timestamp (an ISO string, which fromisoformat reads).
MockTrace(service_name, timestamp, duration_ms, status) ==
    [timestamp |-> timestamp,
     operation |-> "health_check",
     service_name |-> service_name,
     duration_ms |-> duration_ms,
     status |-> status]

\* Traces of a service: an old one, and later ones, quick or slow,
\* completed or failed.
MockTraces(service_name) ==
    {MockTrace(service_name, 1, 100, "completed"),
     MockTrace(service_name, 3, 100, "error"),
     MockTrace(service_name, 3, 1500, "completed")}

MockHistories(service_name) ==
    UNION {[1..n -> MockTraces(service_name)] : n \in 0..MaxStoredTraces}

\* A store whose trace histories hold such traces, one day after time 0.
AnalysisInit ==
    /\ clock = HoursPerDay
    /\ \E system \in MockHistories("system"), api \in MockHistories("api") :
          storage = StorageSet(
                       StorageSet(server_lifespan, trace_history_key("system"), system),
                       trace_history_key("api"), api)
    /\ pc = [p \in Procs |-> "idle"]
    /\ frame = [p \in Procs |-> IdleFrame]
    /\ ninv = 0
    /\ completed = [k \in HistoryKeys |-> 0]
    /\ alert_state = [pair \in AlertPairs |-> "NORMAL"]

\* Windows that leave the old trace out, and that take every trace in.
AnalysisInputs ==
    [StoreInputs EXCEPT
        !.max_inv = MaxAnalysisInv, !.sequential = TRUE,
        !.days = {HoursPerDay - 2, HoursPerDay + 1}]

AnalysisNext == \E p \in Procs : AnalyzeStep(p, AnalysisInputs)

AnalysisSpec == AnalysisInit /\ [][AnalysisNext]_vars

\* The trace lists given to the pattern functions: four traces in four
\* different hours, three of the same duration, one of them failed.
PatternTraces ==
    {MockTrace("system", 0, 100, "completed"),
     MockTrace("system", 1, 100, "error"),
     MockTrace("system", 2, 1500, "completed"),
     MockTrace("system", 3, 100, "completed")}

PatternLists ==
    UNION {[1..n -> PatternTraces] : n \in 0..MaxTraces}

\* A call of the pattern functions on a list of traces.
PatternInit ==
    /\ clock = 0
    /\ storage = server_lifespan
    /\ ninv = 0
    /\ completed = [k \in HistoryKeys |-> 0]
    /\ alert_state = [pair \in AlertPairs |-> "NORMAL"]
    /\ pc = [p \in Procs |-> IF p = "p1" THEN "patterns" ELSE "idle"]
    /\ \E traces \in PatternLists :
          frame = [p \in Procs |->
                     IF p = "p1"
                        THEN [IdleFrame EXCEPT
                                 !.tool = "patterns",
                                 !.all_traces = traces]
                        ELSE IdleFrame]

FindPatterns(p) ==
    /\ pc[p] = "patterns"
    /\ frame' = [frame EXCEPT ![p].ret =
                    [kind |-> "result",
                     peak_hours |-> _find_peak_usage_hours(frame[p].all_traces),
                     slowest_operations |-> _find_slowest_operations(frame[p].all_traces),
                     error_patterns |-> _analyze_error_patterns(frame[p].all_traces)]]
    /\ pc' = [pc EXCEPT ![p] = "done"]
    /\ UNCHANGED <<alert_state, clock, storage, ninv, completed>>

PatternNext == \E p \in Procs : FindPatterns(p)

PatternSpec == PatternInit /\ [][PatternNext]_vars


(***************************************************************************)
(* _analyze_performance_trends                                             *)
(*                                                                         *)
(* cpu_percent and memory_mb are Python floats, and sum(...) / len(...)    *)
(* rounds after every addition and after the division.  The model keeps    *)
(* that arithmetic with MantissaBits significant bits in place of the 53   *)
(* of a double: round to nearest, ties to even, on non-negative values     *)
(* that are whole multiples of the unit 1.                                 *)
(***************************************************************************)
MantissaBits == 5
TrendWindow == 10
MaxTrendLen == 11

RECURSIVE Pow2(_)
Pow2(n) == IF n = 0 THEN 1 ELSE 2 * Pow2(n - 1)

\* The spacing of the floats around num/den: the least power of two u with
\* num/den < 2^MantissaBits * u.
RECURSIVE FloatUlp(_, _, _)
FloatUlp(num, den, u) ==
    IF num < Pow2(MantissaBits) * den * u THEN u ELSE FloatUlp(num, den, 2 * u)

\* The float nearest to num/den (ties to even).
FloatRound(num, den) ==
    LET u == FloatUlp(num, den, 1)
        q == num \div (den * u)
        r == num % (den * u)
        up == 2 * r > den * u \/ (2 * r = den * u /\ q % 2 = 1)
    IN  (IF up THEN q + 1 ELSE q) * u

\* sum(values): from 0, left to right, rounding each partial sum.
RECURSIVE FloatSum(_, _)
FloatSum(values, acc) ==
    IF values = <<>> THEN acc
    ELSE FloatSum(Tail(values), FloatRound(acc + Head(values), 1))

\* sum(h.get(field, 0) for h in recent) / len(recent)
FloatMean(values) == FloatRound(FloatSum(values, 0), Len(values))

\* Lines 792-806.
_analyze_performance_trends(history) ==
    IF Len(history) < 2
       THEN [insufficient_data |-> TRUE]
       ELSE LET recent == LastN(history, TrendWindow)
                cpu_avg == FloatMean([i \in 1..Len(recent) |-> recent[i].cpu_percent])
                memory_avg == FloatMean([i \in 1..Len(recent) |-> recent[i].memory_mb])
            IN  [cpu_trend |-> IF Last(recent).cpu_percent > cpu_avg
                                  THEN "increasing" ELSE "stable",
                 memory_trend |-> IF Last(recent).memory_mb > memory_avg
                                     THEN "increasing" ELSE "stable",
                 avg_cpu_percent |-> cpu_avg,
                 avg_memory_mb |-> memory_avg]

\* The readings the histories given to the analysis are made of: a low
\* and a high cpu_percent, each with its memory_mb, all of them floats.
TrendSamples ==
    {PerformanceMetrics("system", 0, 16, 31, 0),
     PerformanceMetrics("system", 0, 30, 17, 0)}

TrendHistories ==
    UNION {[1..n -> TrendSamples] : n \in 0..MaxTrendLen}

\* A call of _analyze_performance_trends on a history of whole samples.
TrendInit ==
    /\ clock = 0
    /\ storage = server_lifespan
    /\ ninv = 0
    /\ completed = [k \in HistoryKeys |-> 0]
    /\ alert_state = [pair \in AlertPairs |-> "NORMAL"]
    /\ pc = [p \in Procs |-> IF p = "p1" THEN "analyze" ELSE "idle"]
    /\ \E history \in TrendHistories :
          frame = [p \in Procs |->
                     IF p = "p1"
                        THEN [IdleFrame EXCEPT
                                 !.tool = "_analyze_performance_trends",
                                 !.history = history]
                        ELSE IdleFrame]

AnalyzeTrends(p) ==
    /\ pc[p] = "analyze"
    /\ frame' = [frame EXCEPT ![p].ret =
                    [kind |-> "result",
                     trends |-> _analyze_performance_trends(frame[p].history)]]
    /\ pc' = [pc EXCEPT ![p] = "done"]
    /\ UNCHANGED <<alert_state, clock, storage, ninv, completed>>

TrendNext == \E p \in Procs : AnalyzeTrends(p)

TrendSpec == TrendInit /\ [][TrendNext]_vars


(***************************************************************************)
(* Properties.                                                             *)
(***************************************************************************)
\* The history stored under a key (empty before the first append).
History(k) == StorageGet(storage, k, <<>>)

\* The slot's handler stores its history in this step.
Stores(p) == pc[p] = "set" /\ pc'[p] = "done"

\* C1: in every reachable state, under every interleaving of the appending
\* tools, each stored history holds at most its retention cap of entries
\* (health, performance, trace and system status, each with its own cap).
C1_RetentionCap ==
    \A k \in HistoryKeys : Len(History(k)) <= Cap(k)

\* A history that is full after more appends than its cap allows.
C1_Witness ==
    \E k \in HistoryKeys : completed[k] > Cap(k) /\ Len(History(k)) = Cap(k)

\* C2: with invocations one at a time, an append to a history that already
\* holds its cap of N entries leaves exactly N entries: the previous history
\* without its oldest entry, in unchanged order, followed by the new sample;
\* for every kind.
C2_FifoEviction ==
    [][\A p \in Procs :
          Stores(p) /\ Len(History(history_key(frame[p]))) = Cap(history_key(frame[p]))
          => storage'[history_key(frame[p])] =
                Append(Tail(History(history_key(frame[p]))), frame[p].sample)]_vars

\* One key took the first Cap + 1 invocations; the first sample is gone and
\* the others are stored in the order they were appended.
C2_Witness ==
    \E k \in HistoryKeys :
       /\ completed[k] = Cap(k) + 1
       /\ Len(History(k)) = Cap(k)
       /\ \A i \in 1..Cap(k) : History(k)[i].inv = i + 1

\* C3: when two overlapping appending invocations for the same key have both
\* completed and the history is below its cap, the stored history contains
\* both new samples.
C3_BothAppendsStored ==
    \A p, q \in Procs :
       (/\ p # q
        /\ pc[p] = "done" /\ pc[q] = "done"
        /\ frame[p].tool \in AppendingTools
        /\ frame[q].tool \in AppendingTools
        /\ frame[p].ret.kind = "result" /\ frame[q].ret.kind = "result"
        /\ history_key(frame[p]) = history_key(frame[q])
        /\ completed[history_key(frame[p])] <= Cap(history_key(frame[p])))
       => {frame[p].sample, frame[q].sample} \subseteq Range(History(history_key(frame[p])))


\* The fields of a stored performance sample.
PerformanceFields ==
    {"service_name", "timestamp", "cpu_percent", "memory_mb", "error_rate", "inv"}

\* A whole performance sample of one invocation made so far.
WholePerformanceSample(item) ==
    /\ DOMAIN item = PerformanceFields
    /\ item.service_name \in ServiceNames
    /\ item.timestamp \in 0..clock
    /\ item.cpu_percent \in AllInputs.cpu
    /\ item.memory_mb \in AllInputs.memory
    /\ item.error_rate = 0
    /\ item.inv \in 1..ninv

\* C4: under every interleaving of collect_performance_metrics and
\* generate_performance_reports, every value of a performance history that
\* an invocation has read is a sequence of whole samples, each the sample of
\* one appending invocation (no invocation's sample twice, none in part).
C4_ReadsWholeSamples ==
    \A p \in Procs :
       LET history == frame[p].history
       IN  /\ \A i \in 1..Len(history) : WholePerformanceSample(history[i])
           /\ \A i, j \in 1..Len(history) :
                 history[i].inv = history[j].inv => i = j

\* A report has read a non-empty history while an append to that same
\* history is between its read and its write.
C4_Witness ==
    \E p, q \in Procs :
       /\ frame[p].tool = "generate_performance_reports"
       /\ frame[p].history # <<>>
       /\ frame[q].tool = "collect_performance_metrics"
       /\ pc[q] = "set"
       /\ frame[p].history[1].service_name = frame[q].service

\* The time a sample carries: timestamp, or start_time for a trace.
SampleTime(item) ==
    IF "timestamp" \in DOMAIN item THEN item.timestamp ELSE item.start_time

\* C5: in every reachable state the entries of a service's stored health,
\* performance or trace history are in non-decreasing order of their sample
\* time, under every interleaving (the clock never goes backward).
C5_TimestampsNonDecreasing ==
    \A k \in HistoryKeys :
       k[1] \in {"health_history", "performance_history", "trace_history"}
       => \A i, j \in 1..Len(History(k)) :
             i < j => SampleTime(History(k)[i]) <= SampleTime(History(k)[j])

\* The value under a key differs between the two states of a step.
Changed(k) ==
    \/ (k \in DOMAIN storage) # (k \in DOMAIN storage')
    \/ /\ k \in DOMAIN storage
       /\ k \in DOMAIN storage'
       /\ storage[k] # storage'[k]

\* C6: an appending invocation changes the store only in the step that
\* stores its history, and there only under its own history key: every
\* other history key, every report and alert_configs stay as they were,
\* under every interleaving.
C6_OtherKeysUnchanged ==
    [][\A k \in DOMAIN storage \cup DOMAIN storage' :
          Changed(k) => \E p \in Procs : Stores(p) /\ k = history_key(frame[p])]_vars

\* Histories of two kinds are stored next to the untouched alert rules.
C6_Witness ==
    /\ \E k1, k2 \in HistoryKeys :
          /\ k1[1] # k2[1]
          /\ History(k1) # <<>>
          /\ History(k2) # <<>>
    /\ storage[alert_configs_key] = default_alerts


\* The slot holds a monitor_server_health invocation that has returned.
HealthDone(p) ==
    pc[p] = "done" /\ frame[p].tool = "monitor_server_health"

\* The accepted status codes of an invocation, from the argument as passed.
Accepted(f) ==
    IF f.arg_expected = None THEN {200} ELSE f.arg_expected[1]

\* C7: a monitor_server_health invocation returns a result (no exception
\* reaches the caller) whose status is 'healthy' exactly when the probe
\* completed without exception and the response's status code is in
\* expected_status_codes (default [200]), and 'unhealthy' otherwise.
C7_HealthyIffExpectedCode ==
    \A p \in Procs :
       HealthDone(p) =>
          LET f == frame[p]
              health_check == f.ret.health_check
          IN  /\ f.ret.kind = "result"
              /\ health_check.status \in {"healthy", "unhealthy"}
              /\ health_check.status = "healthy"
                 <=> (f.exception = None /\ health_check.details[1] \in Accepted(f))

\* A 404 answered to expected_status_codes=[200] came back as 'unhealthy'.
C7_Witness ==
    \E p \in Procs :
       /\ HealthDone(p)
       /\ frame[p].arg_expected = Some({200})
       /\ frame[p].exception = None
       /\ frame[p].ret.kind = "result"
       /\ frame[p].ret.health_check.details = Some(404)
       /\ frame[p].ret.health_check.status = "unhealthy"

\* C8: when the probe of a monitor_server_health invocation raised, the
\* step that stores and returns gives the caller a result, not an
\* exception: its health_check is 'unhealthy', carries the exception's
\* message as error_message and a response_time_ms >= 0, and is the entry
\* appended last to the history of the service_url.
C8_ProbeExceptionRecorded ==
    [][\A p \in Procs :
          (Stores(p) /\ frame[p].tool = "monitor_server_health"
                     /\ frame[p].exception # None)
          => LET ret == frame'[p].ret
                 history == storage'[history_key(frame[p])]
             IN  /\ ret.kind = "result"
                 /\ ret.health_check.status = "unhealthy"
                 /\ ret.health_check.error_message = frame[p].exception
                 /\ ret.health_check.response_time_ms >= 0
                 /\ history # <<>>
                 /\ Last(history) = ret.health_check]_vars

\* An invocation whose probe raised has returned its unhealthy sample, and
\* that sample is the last of the stored history.
C8_Witness ==
    \E p \in Procs :
       /\ HealthDone(p)
       /\ frame[p].exception = Some("Connection failed")
       /\ ~frame[p].timed_out
       /\ frame[p].ret.health_check.error_message = Some("Connection failed")
       /\ frame[p].ret.health_check.status = "unhealthy"
       /\ Last(History(history_key(frame[p]))) = frame[p].ret.health_check

\* C9: every monitor_server_health invocation whose probe is pending
\* eventually returns a result, whether or not the target ever answers,
\* provided the storage read and write complete; and an invocation whose
\* probe ended by timeout returns an 'unhealthy' sample taken no earlier
\* than timeout_seconds after the start.
C9_EventuallyReturns ==
    /\ \A p \in Procs :
          (pc[p] = "probing") ~> (HealthDone(p) /\ frame[p].ret.kind = "result")
    /\ [](\A p \in Procs :
            (HealthDone(p) /\ frame[p].timed_out)
            => /\ frame[p].ret.health_check.status = "unhealthy"
               /\ frame[p].ret.health_check.response_time_ms
                     >= frame[p].timeout_seconds * 1000)

\* An invocation whose probe ended by timeout has returned 'unhealthy'.
C9_Witness ==
    \E p \in Procs :
       /\ HealthDone(p)
       /\ frame[p].timed_out
       /\ frame[p].ret.kind = "result"
       /\ frame[p].ret.health_check.status = "unhealthy"

\* C10: with invocations one at a time, every monitor_server_health
\* invocation issues one outbound probe and no more, the health history of
\* a URL holds min(k, cap) entries after k completed invocations for it,
\* each from a different invocation, and a returned invocation's sample is
\* the last entry and its historical_checks is the length of the history.
C10_OneProbeOneAppend ==
    /\ \A u \in ServiceUrls :
          LET history == History(health_history_key(u))
          IN  /\ Len(history) = Min(completed[health_history_key(u)], HealthCap)
              /\ \A i, j \in 1..Len(history) :
                    history[i].inv = history[j].inv => i = j
    /\ \A p \in Procs :
          frame[p].tool = "monitor_server_health" =>
             /\ frame[p].probes = 1
             /\ pc[p] = "done" =>
                   LET history == History(history_key(frame[p]))
                   IN  /\ history # <<>>
                       /\ Last(history) = frame[p].sample
                       /\ frame[p].ret.historical_checks = Len(history)

\* The third invocation for a URL, its probe failed, has returned with a
\* full history.
C10_Witness ==
    \E p \in Procs :
       /\ HealthDone(p)
       /\ frame[p].exception # None
       /\ completed[history_key(frame[p])] = HealthCap + 1
       /\ frame[p].ret.historical_checks = HealthCap


\* The recommendations the claim gives for a recorded health sample: the
\* three entries in order, each under its own condition, an error entry
\* whenever an error_message is present.
RecommendationsFor(sample) ==
    (IF sample.status # "healthy"
        THEN <<[text |-> "unhealthy - investigate immediately"]>> ELSE <<>>)
    \o (IF sample.response_time_ms > 1000
        THEN <<[text |-> "response time is high"]>> ELSE <<>>)
    \o (IF sample.error_message # None
        THEN <<[text |-> "address the error", error |-> sample.error_message[1]]>>
        ELSE <<>>)

\* C11: the recommendations monitor_server_health returns are those of the
\* recorded sample alone: 'investigate immediately' exactly when the status
\* is not 'healthy', 'response time is high' exactly when response_time_ms
\* is strictly above 1000, and an entry with the raw error message exactly
\* when an error_message is present, in that order and nothing else.
C11_RecommendationsFromSample ==
    \A p \in Procs :
       HealthDone(p) =>
          frame[p].ret.recommendations = RecommendationsFor(frame[p].ret.health_check)


\* The insufficient-data marker of the trend analysis.
InsufficientData == [insufficient_data |-> TRUE]

\* C12: trend analysis of fewer than 2 samples reports insufficient-data;
\* in particular the first collect_performance_metrics for a service (the
\* one that leaves a single stored sample) returns a result whose trends
\* is the insufficient-data marker.
C12_FirstCollectInsufficient ==
    \A p \in Procs :
       (/\ pc[p] = "done"
        /\ frame[p].tool = "collect_performance_metrics"
        /\ completed[history_key(frame[p])] = 1)
       => /\ frame[p].ret.kind = "result"
          /\ frame[p].ret.trends = InsufficientData

\* The slot holds a finished call of the trend analysis on n >= 2 samples.
TrendDone(p) ==
    /\ pc[p] = "done"
    /\ frame[p].tool = "_analyze_performance_trends"
    /\ Len(frame[p].history) >= 2

\* The trend window of a history: its last min(10, n) samples.
WindowOf(history) ==
    SubSeq(history, Len(history) - Min(Len(history), 10) + 1, Len(history))

\* The exact sums of a window's readings.
RECURSIVE CpuTotal(_)
CpuTotal(window) ==
    IF window = <<>> THEN 0 ELSE Head(window).cpu_percent + CpuTotal(Tail(window))

RECURSIVE MemoryTotal(_)
MemoryTotal(window) ==
    IF window = <<>> THEN 0 ELSE Head(window).memory_mb + MemoryTotal(Tail(window))

\* C13: for a history of 2 or more samples, cpu_trend (memory_trend) is
\* 'increasing' exactly when the latest sample's value is strictly greater
\* than the mean of the trend window, and 'stable' otherwise; a latest
\* value equal to the window mean is 'stable'.  (latest > total / n is
\* latest * n > total.)
C13_IncreasingIffAboveMean ==
    \A p \in Procs :
       TrendDone(p) =>
          LET window == WindowOf(frame[p].history)
              latest == Last(frame[p].history)
              trends == frame[p].ret.trends
          IN  /\ trends.cpu_trend =
                    IF latest.cpu_percent * Len(window) > CpuTotal(window)
                       THEN "increasing" ELSE "stable"
              /\ trends.memory_trend =
                    IF latest.memory_mb * Len(window) > MemoryTotal(window)
                       THEN "increasing" ELSE "stable"

\* C14: for a history of n >= 2 samples, avg_cpu_percent and avg_memory_mb
\* are the arithmetic means of cpu_percent and memory_mb over exactly the
\* last min(10, n) samples (as a float: the exact mean rounded once), and
\* older samples influence neither the averages nor the trend labels.
C14_MeanOfLastTen ==
    \A p \in Procs :
       TrendDone(p) =>
          LET window == WindowOf(frame[p].history)
              trends == frame[p].ret.trends
          IN  /\ trends.avg_cpu_percent = FloatRound(CpuTotal(window), Len(window))
              /\ trends.avg_memory_mb = FloatRound(MemoryTotal(window), Len(window))
              /\ trends = _analyze_performance_trends(window)

(***************************************************************************)
(* alert_on_anomalies: the alert rules.                                    *)
(***************************************************************************)

\* A step in which an alert_on_anomalies invocation returns its result.
AlertReturns(p) ==
    /\ pc[p] # "done"
    /\ pc'[p] = "done"
    /\ frame'[p].tool = "alert_on_anomalies"
    /\ frame'[p].ret.kind = "result"

\* A finished alert_on_anomalies invocation and its evaluated services.
AlertDone(p) ==
    /\ pc[p] = "done"
    /\ frame[p].tool = "alert_on_anomalies"

\* The AnomalyRecords of a result that belong to a (service, metric) pair.
RecordsFor(ret, pair) ==
    {i \in 1..Len(ret.detected_anomalies) :
        /\ ret.detected_anomalies[i].service = pair[1]
        /\ ret.detected_anomalies[i].metric_name = pair[2]}

\* The pair is listed among the active alerts of a result.
Listed(ret, pair) ==
    \E i \in 1..Len(ret.active_alerts) :
        /\ ret.active_alerts[i].service = pair[1]
        /\ ret.active_alerts[i].metric_name = pair[2]

\* The enabled rules of a rule set on one metric.
EnabledRules(configs, metric) ==
    {i \in 1..Len(configs) : configs[i].enabled /\ configs[i].metric_name = metric}

\* The rule cpu_percent gt 90 is in force in a rule set.
CpuRuleInForce(configs) ==
    \E i \in EnabledRules(configs, "cpu_percent") :
        configs[i].operator = "gt" /\ configs[i].threshold = 9000

\* An invocation returns having read a latest sample with cpu_percent 95
\* of a service whose cpu_percent pair is NORMAL, under cpu_percent gt 90.
CpuCrossing(p, svc) ==
    /\ AlertReturns(p)
    /\ CpuRuleInForce(frame'[p].alert_configs)
    /\ svc \in DOMAIN frame'[p].checked
    /\ frame'[p].checked[svc].cpu_percent = 95
    /\ alert_state[<<svc, "cpu_percent">>] = "NORMAL"

\* C15: under the rule cpu_percent gt 90, an alert_on_anomalies invocation
\* that finds cpu_percent 95 in the latest sample of a service whose
\* (service, cpu_percent) pair is NORMAL moves the pair to ALERTING and
\* returns exactly one AnomalyRecord for the pair, with observed value 95
\* and threshold 90.
C15_CrossingEmitsOneRecord ==
    [][\A p \in Procs : \A svc \in ServiceNames :
          CpuCrossing(p, svc) =>
             LET ret == frame'[p].ret
                 records == RecordsFor(ret, <<svc, "cpu_percent">>)
             IN  /\ alert_state'[<<svc, "cpu_percent">>] = "ALERTING"
                 /\ Cardinality(records) = 1
                 /\ \A i \in records :
                       /\ ret.detected_anomalies[i].observed_value = 95
                       /\ ret.detected_anomalies[i].threshold_value = 9000]_vars

\* C16: every returning alert_on_anomalies invocation emits, for each
\* (service, metric) pair, one AnomalyRecord when the pair goes from NORMAL
\* to ALERTING and none otherwise (none, in particular, when the pair was
\* ALERTING already), so that records and transitions stay equal in number.
C16_RecordsCountTransitions ==
    [][\A p \in Procs : \A pair \in AlertPairs :
          AlertReturns(p) =>
             Cardinality(RecordsFor(frame'[p].ret, pair)) =
                IF alert_state[pair] = "NORMAL" /\ alert_state'[pair] = "ALERTING"
                   THEN 1 ELSE 0]_vars

\* C17: when an alert_on_anomalies invocation returns, for every enabled
\* rule and every service whose history it read, the pair is ALERTING and
\* listed in active_alerts exactly when the latest sample satisfies the
\* rule's comparison, and is NORMAL and not listed otherwise.
C17_ActiveIffLatestSatisfies ==
    [][\A p \in Procs : \A pair \in AlertPairs :
          (/\ AlertReturns(p)
           /\ pair[1] \in DOMAIN frame'[p].checked
           /\ EnabledRules(frame'[p].alert_configs, pair[2]) # {})
          =>
             LET f == frame'[p]
                 satisfied ==
                    \E i \in EnabledRules(f.alert_configs, pair[2]) :
                       Satisfies(f.alert_configs[i], f.checked[pair[1]][pair[2]] * 100)
             IN  /\ Listed(f.ret, pair) <=> satisfied
                 /\ alert_state'[pair] = (IF satisfied THEN "ALERTING" ELSE "NORMAL")]_vars

\* The operators a rule may compare with.
Operators == {"gt", "lt", "eq", "ne"}

\* A rule set holds a rule whose operator is none of gt, lt, eq, ne.
HasUnknownOperator(configs) ==
    \E i \in 1..Len(configs) : configs[i].operator \notin Operators

\* What an invocation returned reports an error.
ReportsError(ret) ==
    \/ ret.kind = "exception"
    \/ ret.kind = "result" /\ "error" \in DOMAIN ret

\* C18: an alert_on_anomalies invocation that evaluates a service under a
\* rule whose operator is none of gt, lt, eq, ne ends with a reported
\* configuration error, never with a result that accepts the rule.
C18_UnknownOperatorReported ==
    \A p \in Procs :
       (/\ AlertDone(p)
        /\ frame[p].checked # <<>>
        /\ HasUnknownOperator(frame[p].alert_configs))
       => ReportsError(frame[p].ret)

\* The three default rules, written out.
ThreeDefaultRules ==
    << [metric_name |-> "cpu_percent", threshold |-> 9000, operator |-> "gt",
        severity |-> "warning", enabled |-> TRUE],
       [metric_name |-> "memory_mb", threshold |-> 100000, operator |-> "gt",
        severity |-> "error", enabled |-> TRUE],
       [metric_name |-> "error_rate", threshold |-> 5, operator |-> "gt",
        severity |-> "error", enabled |-> TRUE] >>

\* C19: after startup the stored rule set is exactly the three enabled
\* rules cpu_percent gt 90 (warning), memory_mb gt 1000 (error) and
\* error_rate gt 0.05 (error), and every alert_on_anomalies result carries
\* that rule set as alert_configs.
C19_DefaultRulesInstalled ==
    /\ StorageGet(storage, alert_configs_key, <<>>) = ThreeDefaultRules
    /\ \A p \in Procs :
          AlertDone(p) /\ frame[p].ret.kind = "result"
             => frame[p].ret.alert_configs = ThreeDefaultRules

\* An alert_on_anomalies invocation has returned the three rules after
\* reading a service's history.
C19_Witness ==
    \E p \in Procs :
       /\ AlertDone(p)
       /\ frame[p].ret.kind = "result"
       /\ frame[p].checked # <<>>
       /\ frame[p].ret.alert_configs = ThreeDefaultRules

\* The stored rule set.
StoredRules(s) == StorageGet(s, alert_configs_key, <<>>)

\* No two rules of a rule set are on the same metric.
OneRulePerMetric(configs) ==
    \A i, j \in 1..Len(configs) :
       configs[i].metric_name = configs[j].metric_name => i = j

\* C20: the stored rule set always holds at most one rule per metric name,
\* and no step of any tool changes it.
C20_RuleSetStable ==
    /\ [](OneRulePerMetric(StoredRules(storage)))
    /\ [][StoredRules(storage') = StoredRules(storage)]_vars

\* Both a storing tool and alert_on_anomalies have finished, the store has
\* grown, and the rule set is still in place.
C20_Witness ==
    /\ \E p \in Procs : AlertDone(p) /\ frame[p].ret.kind = "result"
    /\ \E k \in HistoryKeys : completed[k] > 0
    /\ StoredRules(storage) = default_alerts

(***************************************************************************)
(* generate_performance_reports: the window, the report and its artifact.  *)
(***************************************************************************)

\* A step in which a generate_performance_reports invocation ends.
ReportReturns(p) ==
    /\ pc[p] # "done"
    /\ pc'[p] = "done"
    /\ frame'[p].tool = "generate_performance_reports"

\* A finished generate_performance_reports invocation.
ReportDone(p) ==
    /\ pc[p] = "done"
    /\ frame[p].tool = "generate_performance_reports"

\* The samples of a history inside the window: timestamp >= now - days.
WindowSamples(history, cutoff_date) ==
    SelectSeq(history, LAMBDA item : item.timestamp >= cutoff_date)

\* The stored report artifacts.
ReportKeysOf(s) == {k \in StorageKeys(s) : k[1] = "report"}

\* The histories an ending invocation selects: the one it read for a named
\* service, every stored performance history when there is no filter.
SelectedHistories(p) ==
    IF frame'[p].service # ""
       THEN {frame'[p].history}
       ELSE {storage[k] : k \in {k \in StorageKeys(storage) : k[1] = "performance_history"}}

\* C21: a generate_performance_reports invocation whose selected history
\* holds no sample inside the window (no history at all, or only samples
\* older than the cutoff) returns the NoData error structure, raises
\* nothing and stores no report artifact.
C21_NoDataWhenWindowEmpty ==
    [][\A p \in Procs :
          (/\ ReportReturns(p)
           /\ \A history \in SelectedHistories(p) :
                 WindowSamples(history, frame'[p].cutoff_date) = <<>>)
          => /\ frame'[p].ret = NoData
             /\ ReportKeysOf(storage') = {}]_vars

\* C22: the analysed set of a report on a named service is the samples of
\* the history read whose timestamp is >= now - days, the sample exactly on
\* the cutoff included.
C22_WindowIncludesCutoff ==
    \A p \in Procs :
       (ReportDone(p) /\ frame[p].recent_history # None)
       => frame[p].recent_history[1] =
             WindowSamples(frame[p].history, frame[p].cutoff_date)

\* C23: a report on a named service whose history holds k >= 1 samples
\* inside the window is returned as a report with summary, trends,
\* anomalies and recommendations, and summary.total_measurements = k.
C23_ReportCountsWindow ==
    \A p \in Procs :
       LET f == frame[p]
           inside == recent_items(f.history, f.cutoff_date)
       IN  (ReportDone(p) /\ f.service # "" /\ inside # <<>>)
           => /\ f.ret.kind = "result"
              /\ {"summary", "trends", "anomalies", "recommendations"}
                    \subseteq DOMAIN f.ret
              /\ f.ret.summary.total_measurements = Len(inside)

\* C24: every generate_performance_reports invocation that has samples to
\* report on adds exactly one new report artifact to the store and leaves
\* every stored report as it was.
C24_OneArtifactPerReport ==
    [][\A p \in Procs :
          (/\ ReportReturns(p)
           /\ \E history \in SelectedHistories(p) :
                 recent_items(history, frame'[p].cutoff_date) # <<>>)
          => /\ Cardinality(ReportKeysOf(storage') \ ReportKeysOf(storage)) = 1
             /\ \A k \in ReportKeysOf(storage) :
                   k \in ReportKeysOf(storage') /\ storage'[k] = storage[k]]_vars

\* A step in which a collect_performance_metrics invocation ends.
PerformanceReturns(p) ==
    /\ pc[p] # "done"
    /\ pc'[p] = "done"
    /\ frame'[p].tool = "collect_performance_metrics"

\* C25: every collect_performance_metrics invocation returns a result with
\* metrics, trends, alerts and recommendations, and has appended exactly
\* one sample, equal to the returned metrics, to the history of its service.
C25_CollectReturnsAndAppends ==
    [][\A p \in Procs :
          PerformanceReturns(p) =>
             LET f == frame[p]
                 ret == frame'[p].ret
                 history == storage'[performance_history_key(f.service)]
             IN  /\ Cardinality({i \in 1..Len(history) : history[i].inv = f.inv}) = 1
                 /\ Last(history) = f.sample
                 /\ ret.kind = "result"
                 /\ {"metrics", "trends", "alerts", "recommendations"}
                       \subseteq DOMAIN ret
                 /\ ret.metrics = f.sample]_vars

(***************************************************************************)
(* analyze_mcp_interactions: the analysis and its patterns.                *)
(***************************************************************************)

\* A step in which an analyze_mcp_interactions invocation ends.
AnalyzeReturns(p) ==
    /\ pc[p] # "done"
    /\ pc'[p] = "done"
    /\ frame'[p].tool = "analyze_mcp_interactions"

\* A finished analyze_mcp_interactions invocation that returned an analysis.
AnalysisDone(p) ==
    /\ pc[p] = "done"
    /\ frame[p].tool = "analyze_mcp_interactions"
    /\ frame[p].ret.kind = "result"

\* The time a stored trace was taken at: the field its writer filled.
TraceTime(trace) ==
    IF "start_time" \in DOMAIN trace THEN trace.start_time ELSE trace.timestamp

\* The places <<key, index>> of the stored traces inside the window.
WindowTraces(s, cutoff_date) ==
    {<<k, i>> \in UNION {{k} \X (1..Len(s[k])) :
                           k \in {k \in StorageKeys(s) : k[1] = "trace_history"}} :
        TraceTime(s[k][i]) > cutoff_date}

\* C26: with k >= 1 traces recorded by trace_mcp_calls inside the window,
\* analyze_mcp_interactions returns an analysis whose
\* patterns.total_interactions is k.
C26_AnalysisCountsRecordedTraces ==
    [][\A p \in Procs :
          LET k == Cardinality(WindowTraces(storage, frame'[p].cutoff_date))
          IN  (AnalyzeReturns(p) /\ k >= 1)
              => /\ frame'[p].ret.kind = "result"
                 /\ frame'[p].ret.patterns.total_interactions = k]_vars

\* C27: analyze_mcp_interactions ends with the NoData error structure,
\* raising nothing, exactly when no stored trace is inside the window,
\* trace histories of old traces included.
C27_NoDataIffNoWindowTrace ==
    [][\A p \in Procs :
          AnalyzeReturns(p) =>
             (frame'[p].ret = NoInteractionData
                <=> WindowTraces(storage, frame'[p].cutoff_date) = {})]_vars

\* A finished call of the pattern functions on a list of traces.
PatternsDone(p) ==
    /\ pc[p] = "done"
    /\ frame[p].tool = "patterns"

\* The place at which an hour is first met in a list of traces.
FirstSeen(traces, h) ==
    CHOOSE i \in 1..Len(traces) :
       /\ hour(traces[i].timestamp) = h
       /\ \A j \in 1..(i - 1) : hour(traces[j].timestamp) # h

\* The hours met in a list of traces.
HoursMet(traces) == {hour(traces[i].timestamp) : i \in 1..Len(traces)}

\* The rank of an hour among the hours met, by call count descending and
\* hour value ascending.
RankByHour(traces, h) ==
    1 + Cardinality({g \in HoursMet(traces) :
           \/ HourCount(traces, g) > HourCount(traces, h)
           \/ HourCount(traces, g) = HourCount(traces, h) /\ g < h})

\* The same with equal counts in the order the hours are first met.
RankByFirstSeen(traces, h) ==
    1 + Cardinality({g \in HoursMet(traces) :
           \/ HourCount(traces, g) > HourCount(traces, h)
           \/ /\ HourCount(traces, g) = HourCount(traces, h)
              /\ FirstSeen(traces, g) < FirstSeen(traces, h)})

\* C28 as stated: peak_hours is the min(3, distinct hours) hours of most
\* calls, by call count descending, equal counts by hour ascending (so
\* that the order of the traces does not matter).
C28_PeakHoursTiesByHour ==
    \A p \in Procs :
       PatternsDone(p) =>
          LET traces == frame[p].all_traces
              peak_hours == frame[p].ret.peak_hours
          IN  /\ Len(peak_hours) = Min(PeakHours, Cardinality(HoursMet(traces)))
              /\ \A h \in HoursMet(traces) :
                    RankByHour(traces, h) <= PeakHours
                       => peak_hours[RankByHour(traces, h)] = h

\* C28, amended: peak_hours is the min(3, distinct hours) hours of most
\* calls, by call count descending, equal counts in the order in which the
\* hours are first met in the trace list.
C28_PeakHoursTiesByFirstSeen ==
    \A p \in Procs :
       PatternsDone(p) =>
          LET traces == frame[p].all_traces
              peak_hours == frame[p].ret.peak_hours
          IN  /\ Len(peak_hours) = Min(PeakHours, Cardinality(HoursMet(traces)))
              /\ \A h \in HoursMet(traces) :
                    RankByFirstSeen(traces, h) <= PeakHours
                       => peak_hours[RankByFirstSeen(traces, h)] = h

\* One trace in each hour of the day, the later hours first: the peak
\* hours are the three hours met first.
C28_Witness ==
    \E p \in Procs :
       /\ PatternsDone(p)
       /\ Len(frame[p].all_traces) = 4
       /\ [i \in 1..4 |-> hour(frame[p].all_traces[i].timestamp)] = <<3, 1, 0, 2>>
       /\ frame[p].ret.peak_hours = <<3, 1, 0>>

\* The rank of the trace at place i, by duration descending, equal
\* durations in the order of the list.
RankByDuration(traces, i) ==
    1 + Cardinality({j \in 1..Len(traces) :
           \/ traces[j].duration_ms > traces[i].duration_ms
           \/ traces[j].duration_ms = traces[i].duration_ms /\ j < i})

\* C29: slowest_operations is the min(5, total) traces of largest
\* duration_ms, by duration descending, traces of equal duration in the
\* order in which they stand in the trace list.
C29_SlowestByDurationStable ==
    \A p \in Procs :
       PatternsDone(p) =>
          LET traces == frame[p].all_traces
              slowest == frame[p].ret.slowest_operations
          IN  /\ Len(slowest) = Min(SlowestOperations, Len(traces))
              /\ \A i \in 1..Len(traces) :
                    RankByDuration(traces, i) <= SlowestOperations
                       => slowest[RankByDuration(traces, i)] = traces[i]

\* More traces than the list holds, the slow one met last and different
\* traces of equal duration before it.
C29_Witness ==
    \E p \in Procs :
       /\ PatternsDone(p)
       /\ Len(frame[p].all_traces) > SlowestOperations
       /\ frame[p].all_traces[Len(frame[p].all_traces)].duration_ms = 1500
       /\ frame[p].all_traces[1] # frame[p].all_traces[2]
       /\ frame[p].all_traces[1].duration_ms = frame[p].all_traces[2].duration_ms
       /\ frame[p].ret.slowest_operations[1].duration_ms = 1500
       /\ frame[p].ret.slowest_operations[2] = frame[p].all_traces[1]
       /\ frame[p].ret.slowest_operations[3] = frame[p].all_traces[2]

\* The stored traces inside the window that did not complete.
WindowErrors(s, cutoff_date) ==
    {place \in WindowTraces(s, cutoff_date) : s[place[1]][place[2]].status # "completed"}

\* C30: in an analysis, error_rate is the number of in-window traces whose
\* status is not completed over the number of in-window traces, and each
\* service's entry of service_comparison has its in-window trace count as
\* total_calls, with avg_duration and error_rate 0 when the count is 0.
C30_ErrorRateAndServiceCounts ==
    \A p \in Procs :
       AnalysisDone(p) =>
          LET f == frame[p]
              window == WindowTraces(storage, f.cutoff_date)
              patterns == f.ret.patterns
          IN  /\ patterns.error_patterns.error_rate =
                    Quotient(Cardinality(WindowErrors(storage, f.cutoff_date)),
                             Cardinality(window))
              /\ DOMAIN patterns.service_comparison =
                    {k[2] : k \in {k \in StorageKeys(storage) : k[1] = "trace_history"}}
              /\ \A service \in DOMAIN patterns.service_comparison :
                    LET entry == patterns.service_comparison[service]
                        calls == {place \in window : place[1][2] = service}
                    IN  /\ entry.total_calls = Cardinality(calls)
                        /\ calls = {} => entry.avg_duration = Zero /\ entry.error_rate = Zero

\* An analysis over two services, one with failed traces in the window and
\* one whose traces are all older than the cutoff.
C30_Witness ==
    \E p \in Procs :
       /\ AnalysisDone(p)
       /\ frame[p].ret.patterns.error_patterns.error_rate = <<1, 2>>
       /\ frame[p].ret.patterns.service_comparison["system"].total_calls = 2
       /\ storage[trace_history_key("api")] # <<>>
       /\ frame[p].ret.patterns.service_comparison["api"].total_calls = 0

(***************************************************************************)
(* export_metrics: the exported dict.                                      *)
(***************************************************************************)

\* A finished export_metrics invocation.
ExportDone(p) ==
    /\ pc[p] = "done"
    /\ frame[p].tool = "export_metrics"

\* C31: export_metrics with format json returns a dict with a timestamp
\* and a version; it has a history block when include_history is true and
\* none at all when it is false.
C31_JsonExportFields ==
    \A p \in Procs :
       (ExportDone(p) /\ frame[p].format = "json")
       => /\ {"timestamp", "version"} \subseteq DOMAIN frame[p].ret
          /\ "history" \in DOMAIN frame[p].ret <=> frame[p].include_history

\* A json export with history, holding the entries of a stored history,
\* next to one without history.
C31_Witness ==
    /\ \E p \in Procs :
          /\ ExportDone(p)
          /\ frame[p].format = "json"
          /\ frame[p].include_history
          /\ \E k \in DOMAIN frame[p].ret.history : frame[p].ret.history[k] # <<>>
    /\ \E p \in Procs :
          /\ ExportDone(p)
          /\ frame[p].format = "json"
          /\ ~frame[p].include_history
          /\ "history" \notin DOMAIN frame[p].ret

\* The formats export_metrics supports.
SupportedFormats == {"prometheus", "opentelemetry", "json"}

\* C32: for each supported format the result of export_metrics has a
\* format field equal to the format asked for.
C32_FormatFieldEchoed ==
    \A p \in Procs :
       (ExportDone(p) /\ frame[p].format \in SupportedFormats)
       => /\ "format" \in DOMAIN frame[p].ret
          /\ frame[p].ret.format = frame[p].format

(***************************************************************************)
(* Failures and the store.                                                 *)
(***************************************************************************)

\* The entries an invocation has in the stored histories.
EntriesOf(s, inv) ==
    {<<k, i>> \in UNION {{k} \X (1..Len(s[k])) : k \in HistoryKeys \cap DOMAIN s} :
        s[k][i].inv = inv}

\* A step in which an invocation ends because a storage call raised.
StorageFailure(p) ==
    /\ pc[p] # "done"
    /\ pc'[p] = "done"
    /\ frame'[p].ret.kind = "exception"
    /\ frame'[p].ret.type = "StorageError"

\* C33: an invocation in which a storage read or write fails ends with
\* that failure raised to its caller, and has written nothing: the failing
\* step leaves the store as it is, and the store holds no history entry of
\* the invocation, no report and no rule other than those it had.
C33_StorageFailureWritesNothing ==
    [][\A p \in Procs :
          StorageFailure(p)
          => /\ storage' = storage
             /\ EntriesOf(storage', frame'[p].inv) = {}
             /\ ReportKeysOf(storage') = {}
             /\ StoredRules(storage') = default_alerts]_vars

\* An appending invocation whose storage.set raised, next to a store that
\* holds the entry of another invocation.
C33_Witness ==
    \E p \in Procs :
       /\ pc[p] = "done"
       /\ frame[p].ret.kind = "exception"
       /\ frame[p].ret.type = "StorageError"
       /\ frame[p].ret.at = "set"
       /\ frame[p].history # <<>>
       /\ EntriesOf(storage, frame[p].inv) = {}

\* An invocation has ended in failure: an error result or an exception.
Failed(p) ==
    /\ pc[p] = "done"
    /\ frame[p].ret.kind \in {"error", "exception"}

\* C34: an invocation that ends in failure has left nothing of its own in
\* the store (no appending tool fails after its sample is written), and
\* its failure is a structured error payload, not a raised exception.
C34_FailureLeavesNoSample ==
    \A p \in Procs :
       Failed(p)
       => /\ frame[p].ret.kind = "error"
          /\ EntriesOf(storage, frame[p].inv) = {}

\* C35: in every step, for every history key, the new stored history is
\* the old one without some of its oldest entries, the others unchanged
\* and in order, followed by at most one new sample.
C35_HistoriesOnlyAgeAndGrow ==
    [][\A k \in HistoryKeys :
          LET old == History(k)
              new == StorageGet(storage', k, <<>>)
          IN  \E dropped \in 0..Len(old) :
                 LET kept == SubSeq(old, dropped + 1, Len(old))
                 IN  \/ new = kept
                     \/ new # <<>> /\ SubSeq(new, 1, Len(new) - 1) = kept]_vars

\* The tools that analyse the store.
AnalysisTools ==
    {"alert_on_anomalies", "analyze_mcp_interactions", "export_metrics",
     "generate_performance_reports"}

\* A step of an invocation of one of the analysis tools.
AnalysisToolStep(p) ==
    /\ pc'[p] # pc[p] \/ frame'[p] # frame[p]
    /\ frame'[p].tool \in AnalysisTools

\* C36: no step of alert_on_anomalies, analyze_mcp_interactions or
\* export_metrics changes the store, and a step of
\* generate_performance_reports changes nothing but, when it returns a
\* report, the one report artifact it adds; no history key and no rule is
\* touched.
C36_AnalysisToolsReadOnly ==
    [][\A p \in Procs :
          AnalysisToolStep(p)
          => /\ \A k \in StorageKeys(storage) :
                   k \in StorageKeys(storage') /\ storage'[k] = storage[k]
             /\ \A k \in StorageKeys(storage') \ StorageKeys(storage) :
                   /\ k[1] = "report"
                   /\ frame'[p].tool = "generate_performance_reports"
                   /\ frame'[p].ret.kind = "result"
             /\ Cardinality(StorageKeys(storage') \ StorageKeys(storage)) <= 1]_vars

\* An export with history has run to its end over stored histories.
C36_Witness ==
    \E p \in Procs :
       /\ ExportDone(p)
       /\ frame[p].format = "json"
       /\ frame[p].include_history
       /\ \E k \in DOMAIN frame[p].ret.history : frame[p].ret.history[k] # <<>>
       /\ \E k \in StorageKeys(storage) : IsHistoryKey(k) /\ storage[k] # <<>>

\* The services with a stored sample inside the window.
WindowServices(s, cutoff_date) ==
    {service \in ServiceNames :
        recent_items(StorageGet(s, performance_history_key(service), <<>>),
                     cutoff_date) # <<>>}

\* C37: an unfiltered generate_performance_reports that finds an in-window
\* sample of some service returns a report whose summary has one entry for
\* exactly each service with an in-window sample, total_measurements
\* being that service's number of in-window samples.
C37_UnfilteredReportCoversServices ==
    [][\A p \in Procs :
          LET f == frame'[p]
              services == WindowServices(storage, f.cutoff_date)
          IN  (ReportReturns(p) /\ f.service = "" /\ services # {})
              => /\ f.ret.kind = "result"
                 /\ DOMAIN f.ret.summary = services
                 /\ \A service \in services :
                       f.ret.summary[service].total_measurements =
                          Len(recent_items(storage[performance_history_key(service)],
                                           f.cutoff_date))]_vars

\* The stored traces.
StoredTraces ==
    UNION {Range(storage[k]) : k \in {k \in StorageKeys(storage) : k[1] = "trace_history"}}

\* C38: every stored trace has status completed, and every error rate of
\* an analysis, overall and per service, is 0.
C38_TracesCompleted ==
    /\ \A trace \in StoredTraces : trace.status = "completed"
    /\ \A p \in Procs :
          AnalysisDone(p)
          => /\ frame[p].ret.patterns.error_patterns.error_rate = Zero
             /\ \A service \in DOMAIN frame[p].ret.patterns.service_comparison :
                   frame[p].ret.patterns.service_comparison[service].error_rate = Zero

\* Traces of both services are stored and an analysis has run over them.
C38_Witness ==
    /\ \A service \in ServiceNames :
          StorageGet(storage, trace_history_key(service), <<>>) # <<>>
    /\ \E p \in Procs :
          /\ pc[p] = "done"
          /\ frame[p].tool = "analyze_mcp_interactions"
          /\ frame[p].history # <<>>

=============================================================================
